---------------------------- MODULE Spec2Model ----------------------------
(***************************************************************************)
(* Recommendation and AI-orchestration pipeline of the shopping assistant: *)
(* the sliding-window RateLimiter, the TTL Cache, callGemini /             *)
(* searchSimilarProducts, the rule-based scorer determineShouldBuy, the    *)
(* truncated-JSON repair of parsePerplexityResponse and the top-level      *)
(* ProductAnalyzer.analyzeProduct.                                         *)
(*                                                                         *)
(* Numbers: times are milliseconds; scores are hundredths (0.7 is 70);     *)
(* ratings are tenths of a star (4.5 is 45); prices are whole dollars.     *)
(* An average is kept as the exact fraction [n, d] the code divides.       *)
(***************************************************************************)
EXTENDS Integers, Sequences, FiniteSets, TLC

VARIABLES
    now,        \* Date.now(), in ms
    requests,   \* RateLimiter.requests: service key -> request timestamps
    granted,    \* history: per key, the times of the checks that succeeded
    rlLast,     \* outcome of the most recent RateLimiter.check
    ticks,      \* number of clock advances so far
    scorer,     \* one determineShouldBuy evaluation: its arguments and result
    ptext,      \* a reply text handed to parsePerplexityResponse
    pgen,       \* history: how ptext was produced (the service's JSON writer)
    presult,    \* what parsePerplexityResponse did with ptext
    store,      \* the preference store: criteria and preferences, or absent
    cache,      \* Cache.storage: cache key -> entry
    wrote,      \* history: per cache key, the request that wrote the entry
    an,         \* the analyzeProduct activation: position, locals, result
    call,       \* the service call analyzeProduct is awaiting
    late,       \* settlements still to come from attempts whose race is decided
    ci,         \* the CartInterceptor: isAnalyzing and its click handlers
    tele,       \* SupabaseSync.userId and the trackPurchaseDecision activation
    unit        \* a library call made on its own: its arguments and its result

rlVars == <<now, requests, granted, rlLast, ticks>>
parseVars == <<ptext, pgen, presult>>
pipeVars == <<store, cache, wrote, an, call>>
sideVars == <<late, ci, tele, unit>>
vars == <<now, requests, granted, rlLast, ticks, scorer, ptext, pgen, presult,
          store, cache, wrote, an, call, late, ci, tele, unit>>

(***************************************************************************)
(* RateLimiter (src/src/utils/apiKeyStorage.ts)                            *)
(***************************************************************************)
GeminiMaxRequests == 10
GeminiWindowMs == 60000
PerplexityMaxRequests == 10
PerplexityWindowMs == 60000

ServiceKeys == {"gemini-api", "perplexity-api"}

maxRequests(key) ==
    IF key = "gemini-api" THEN GeminiMaxRequests ELSE PerplexityMaxRequests

windowMs(key) ==
    IF key = "gemini-api" THEN GeminiWindowMs ELSE PerplexityWindowMs

\* A filter that keeps the request made exactly windowMs ago.
InWindow_inclusive(times, windowStart) ==
    SelectSeq(times, LAMBDA time : time >= windowStart)

\* requestTimes.filter(time => time > windowStart)
InWindow(times, windowStart) == SelectSeq(times, LAMBDA time : time > windowStart)

\* A limit test that lets one request too many through.
LimitReached_offByOne(requestTimes, key) == Len(requestTimes) > maxRequests(key)

\* The limit test of check(): requestTimes.length >= this.config.maxRequests
LimitReached(requestTimes, key) == Len(requestTimes) >= maxRequests(key)

\* A wait time measured from the newest request in the window.
WaitTime_fromNewest(requestTimes, key, t) ==
    requestTimes[Len(requestTimes)] + windowMs(key) - t

\* waitTime = oldestRequest + windowMs - now
WaitTime(requestTimes, key, t) == requestTimes[1] + windowMs(key) - t

\* RateLimiter.check(key) at time t: the outcome and the stored history after it.
\* A rejected check throws before this.requests.set, so the map is left as it was.
RateLimiterCheck(reqs, key, t) ==
    LET windowStart == t - windowMs(key)
        requestTimes == InWindow(reqs[key], windowStart)
    IN  IF LimitReached(requestTimes, key)
        THEN [ok |-> FALSE,
              waitTime |-> WaitTime(requestTimes, key, t),
              requests |-> reqs]
        ELSE [ok |-> TRUE,
              waitTime |-> 0,
              requests |-> [reqs EXCEPT ![key] = Append(requestTimes, t)]]

NoCheck == [key |-> "none", ok |-> TRUE, waitTime |-> 0, at |-> 0, inWindowBefore |-> 0,
            afterRejection |-> FALSE]

\* History bookkeeping: the successful checks of `key` still inside the window at t.
GrantedInWindow(g, key, t) == SelectSeq(g[key], LAMBDA time : time > t - windowMs(key))

(***************************************************************************)
(* Products, criteria and patterns (src/unnamed/part_005, part_010)        *)
(***************************************************************************)
\* A title is its sequence of characters, so that toLowerCase, includes and
\* split act on it as they do in the code.
TitleEcoMug == <<"E", "c", "o", " ", "M", "u", "g">>
TitleMug == <<"M", "u", "g">>
Titles == {TitleEcoMug, TitleMug}

Categories == {"Electronics", "Home"}

\* rating?: number -- NoRating is `undefined`
NoRating == -1

\* JavaScript truthiness of an optional number: undefined and 0 are falsy.
Truthy(x) == x # NoRating /\ x # 0

LowerChar(c) ==
    CASE c = "E" -> "e"
      [] c = "M" -> "m"
      [] c = "B" -> "b"
      [] c = "F" -> "f"
      [] c = "O" -> "o"
      [] c = "P" -> "p"
      [] c = "V" -> "v"
      [] OTHER -> c

\* String.prototype.toLowerCase
toLowerCase(str) == [i \in 1..Len(str) |-> LowerChar(str[i])]

\* String.prototype.includes
includes(str, sub) ==
    \E i \in 1..(Len(str) - Len(sub) + 1) : SubSeq(str, i, i + Len(sub) - 1) = sub

\* The eco test shared by determineShouldBuy and calculateGoalAlignment
isEco(title) ==
    \/ includes(toLowerCase(title), <<"e", "c", "o">>)
    \/ includes(toLowerCase(title), <<"o", "r", "g", "a", "n", "i", "c">>)
    \/ includes(toLowerCase(title),
                <<"s", "u", "s", "t", "a", "i", "n", "a", "b", "l", "e">>)

\* Array.prototype.includes on a list
InList(list, x) == \E i \in 1..Len(list) : list[i] = x

(***************************************************************************)
(* ProductAnalyzer.determineShouldBuy (src/unnamed/part_010:176-255)       *)
(***************************************************************************)
\* Lines 188-238: the additive adjustments, each with the reason it pushes.
\* An average avg = n/d is compared exactly: price <= avg * 1.2 is
\* price * d * 10 <= n * 12, and rating >= threshold is rating * d >= n.
Adjustments(product, criteria, patterns) ==
    LET price ==
            IF patterns.avgLikedPrice.n > 0
            THEN IF product.priceNumeric * patterns.avgLikedPrice.d * 10
                      <= patterns.avgLikedPrice.n * 12
                 THEN <<20, <<"within-price-range">> >>
                 ELSE <<-20, <<"above-usual-spending">> >>
            ELSE <<0, <<>> >>
        quality ==
            IF Truthy(product.rating)
            THEN IF product.rating * patterns.qualityThreshold.d
                      >= patterns.qualityThreshold.n
                 THEN <<15, <<"meets-quality">> >>
                 ELSE <<-15, <<"below-quality">> >>
            ELSE <<0, <<>> >>
        category ==
            IF InList(patterns.preferredCategories, product.category)
            THEN <<15, <<"liked-category">> >>
            ELSE IF InList(patterns.avoidedCategories, product.category)
                 THEN <<-20, <<"skipped-category">> >>
                 ELSE <<0, <<>> >>
        saveMoney ==
            IF "save-money" \in criteria.userGoals /\ product.priceNumeric > 100
            THEN <<-10, <<"not-save-money">> >>
            ELSE <<0, <<>> >>
        qualityFirst ==
            IF "quality-first" \in criteria.userGoals /\ Truthy(product.rating)
               /\ product.rating >= 45
            THEN <<10, <<"high-quality">> >>
            ELSE <<0, <<>> >>
        eco ==
            IF "eco-friendly" \in criteria.userGoals /\ isEco(product.title)
            THEN <<10, <<"eco-option">> >>
            ELSE <<0, <<>> >>
    IN  <<price, quality, category, saveMoney, qualityFirst, eco>>

\* A bucketing that puts a score of exactly 0.7 into "consider".
RecommendationOf_strict(score) ==
    IF score > 70 THEN "buy" ELSE IF score >= 40 THEN "consider" ELSE "skip"

\* Lines 241-248: the recommendation is decided on the score before clamping
RecommendationOf(score) ==
    IF score >= 70 THEN "buy" ELSE IF score >= 40 THEN "consider" ELSE "skip"

\* let score = 0.5, the adjustments in order, the recommendation from the
\* unclamped score, and line 253: Math.max(0, Math.min(1, score))
determineShouldBuy(product, criteria, patterns) ==
    LET a == Adjustments(product, criteria, patterns)
        score == 50 + a[1][1] + a[2][1] + a[3][1] + a[4][1] + a[5][1] + a[6][1]
        clamped == IF score > 100 THEN 100 ELSE IF score < 0 THEN 0 ELSE score
    IN  [recommendation |-> RecommendationOf(score),
         reasons |-> a[1][2] \o a[2][2] \o a[3][2] \o a[4][2] \o a[5][2] \o a[6][2],
         score |-> clamped]

(***************************************************************************)
(* parsePerplexityResponse (src/unnamed/part_004:240-361, and the same     *)
(* function in src/src/services/perplexityService.ts:180-295)              *)
(*                                                                         *)
(* A reply text is a sequence of lexical tokens:                           *)
(*   "["  "]"  "{"  "}"  ","  " "   the characters the code looks at       *)
(*   "tA" "tB" "tC"   a complete member  "title":"A" (B, C)                *)
(*   "p"              a complete member  "price":"$10"                     *)
(*   "f"              a key and its colon  "features":  (a value follows)  *)
(*   "s"  "n"         a string literal, the literal null                   *)
(*   "~"              a cut-off fragment such as  "pri   (never valid)     *)
(*   "w"              a word of prose;  "F"  a markdown fence ``` / ```json*)
(***************************************************************************)
TitleToks == <<"tA", "tB", "tC">>
Alphabet == {"[", "]", "{", "}", ",", " ", "tA", "tB", "p", "f", "s", "n", "~", "w", "F"}

RECURSIVE ParseValue(_, _), ParseArray(_, _, _), ParseObject(_, _, _)

\* Index of the first non-blank token at or after i (Len + 1 when there is none)
SkipWs(txt, i) ==
    LET rest == {j \in i..Len(txt) : txt[j] # " "}
    IN  IF rest = {} THEN Len(txt) + 1
        ELSE CHOOSE j \in rest : \A k \in rest : j <= k

\* JSON.parse, by recursive descent: a value starting at i
ParseValue(txt, i) ==
    IF i > Len(txt) THEN [ok |-> FALSE]
    ELSE CASE txt[i] = "s" -> [ok |-> TRUE, val |-> [type |-> "str"], next |-> i + 1]
           [] txt[i] = "n" -> [ok |-> TRUE, val |-> [type |-> "null"], next |-> i + 1]
           [] txt[i] = "[" ->
                LET j == SkipWs(txt, i + 1)
                IN  IF j <= Len(txt) /\ txt[j] = "]"
                    THEN [ok |-> TRUE, val |-> [type |-> "arr", items |-> <<>>],
                          next |-> j + 1]
                    ELSE ParseArray(txt, j, <<>>)
           [] txt[i] = "{" ->
                LET j == SkipWs(txt, i + 1)
                    empty == [type |-> "obj", title |-> "", price |-> FALSE,
                              features |-> FALSE]
                IN  IF j <= Len(txt) /\ txt[j] = "}"
                    THEN [ok |-> TRUE, val |-> empty, next |-> j + 1]
                    ELSE ParseObject(txt, j, empty)
           [] OTHER -> [ok |-> FALSE]

\* the elements of an array, a value being due at i
ParseArray(txt, i, acc) ==
    LET v == ParseValue(txt, i)
    IN  IF ~v.ok THEN [ok |-> FALSE]
        ELSE LET k == SkipWs(txt, v.next)
                 items == Append(acc, v.val)
             IN  IF k > Len(txt) THEN [ok |-> FALSE]
                 ELSE IF txt[k] = "," THEN ParseArray(txt, SkipWs(txt, k + 1), items)
                 ELSE IF txt[k] = "]"
                      THEN [ok |-> TRUE, val |-> [type |-> "arr", items |-> items],
                            next |-> k + 1]
                      ELSE [ok |-> FALSE]

\* the members of an object, a member being due at i (a repeated key: last wins)
ParseObject(txt, i, obj) ==
    IF i > Len(txt) THEN [ok |-> FALSE]
    ELSE LET c == txt[i]
             m == IF InList(TitleToks, c)
                  THEN [ok |-> TRUE, obj |-> [obj EXCEPT !.title = c], next |-> i + 1]
                  ELSE IF c = "p"
                  THEN [ok |-> TRUE, obj |-> [obj EXCEPT !.price = TRUE], next |-> i + 1]
                  ELSE IF c = "f"
                  THEN LET v == ParseValue(txt, SkipWs(txt, i + 1))
                       IN  IF v.ok
                           THEN [ok |-> TRUE, obj |-> [obj EXCEPT !.features = TRUE],
                                 next |-> v.next]
                           ELSE [ok |-> FALSE]
                  ELSE [ok |-> FALSE]
         IN  IF ~m.ok THEN [ok |-> FALSE]
             ELSE LET k == SkipWs(txt, m.next)
                  IN  IF k > Len(txt) THEN [ok |-> FALSE]
                      ELSE IF txt[k] = "," THEN ParseObject(txt, SkipWs(txt, k + 1), m.obj)
                      ELSE IF txt[k] = "}"
                           THEN [ok |-> TRUE, val |-> m.obj, next |-> k + 1]
                           ELSE [ok |-> FALSE]

\* JSON.parse(text): one value, blanks around it, nothing else
JSONParse(txt) ==
    LET v == ParseValue(txt, SkipWs(txt, 1))
    IN  IF v.ok /\ SkipWs(txt, v.next) = Len(txt) + 1
        THEN [ok |-> TRUE, val |-> v.val]
        ELSE [ok |-> FALSE]

\* String.prototype.trim
Trim(txt) ==
    LET solid == {j \in 1..Len(txt) : txt[j] # " "}
    IN  IF solid = {} THEN <<>>
        ELSE SubSeq(txt, CHOOSE j \in solid : \A k \in solid : j <= k,
                         CHOOSE j \in solid : \A k \in solid : j >= k)

\* Lines 248-251: trim, drop the markdown fences, trim
StripFences(response) == Trim(SelectSeq(Trim(response), LAMBDA c : c # "F"))

\* Lines 254-257: jsonText.match(/\[[\s\S]*\]/) -- first "[" to last "]"
ArraySpan(jsonText) ==
    LET opens == {i \in 1..Len(jsonText) : jsonText[i] = "["}
        first == CHOOSE i \in opens : \A k \in opens : i <= k
        closes == {j \in 1..Len(jsonText) : jsonText[j] = "]" /\ j > first}
    IN  IF opens = {} \/ closes = {} THEN jsonText
        ELSE SubSeq(jsonText, first, CHOOSE j \in closes : \A k \in closes : j >= k)

\* Lines 274-285: the last 0-based index i > 0 at which the count of "[" minus
\* "]" over jsonText[0..i] is zero; -1 when there is none
LastValidIndex(jsonText) ==
    LET depth(i) == Cardinality({j \in 1..i : jsonText[j] = "["})
                    - Cardinality({j \in 1..i : jsonText[j] = "]"})
        valid == {i \in 2..Len(jsonText) : depth(i) = 0}
    IN  IF valid = {} THEN -1
        ELSE (CHOOSE i \in valid : \A k \in valid : i >= k) - 1

\* Line 301: jsonText.match(/\[[\s\S]*?\}(?:\s*,\s*\{[\s\S]*?\})*/): from the first
\* "[" lazily to the first "}" after it, then every following ", { ... }" group,
\* each taken lazily to its first "}". Returns the 1-based end, 0 for no match.
RECURSIVE MoreObjects(_, _)
MoreObjects(jsonText, end) ==
    LET c == SkipWs(jsonText, end + 1)
        o == SkipWs(jsonText, c + 1)
        closes == {j \in 1..Len(jsonText) : jsonText[j] = "}" /\ j > o}
    IN  IF c <= Len(jsonText) /\ jsonText[c] = "," /\ o <= Len(jsonText)
           /\ jsonText[o] = "{" /\ closes # {}
        THEN MoreObjects(jsonText, CHOOSE j \in closes : \A k \in closes : j <= k)
        ELSE end


\* Lines 270-306: the text handed to the second JSON.parse
FixTruncated(jsonText) ==
    LET lastValidIndex == LastValidIndex(jsonText)
        \* jsonText.lastIndexOf('},', lastValidIndex), 0-based, -1 when absent
        starts == {k \in 0..(Len(jsonText) - 2) :
                     /\ k <= lastValidIndex
                     /\ jsonText[k + 1] = "}" /\ jsonText[k + 2] = ","}
        lastCompleteObject ==
            IF starts = {} THEN -1 ELSE CHOOSE k \in starts : \A j \in starts : k >= j
        \* jsonText.replace(/,\s*$/, '')
        lastSolid == {j \in 1..Len(jsonText) :
                        jsonText[j] # " " /\ \A k \in (j + 1)..Len(jsonText) :
                                                jsonText[k] = " "}
        noTrailingComma ==
            IF \E j \in lastSolid : jsonText[j] = ","
            THEN SubSeq(jsonText, 1, (CHOOSE j \in lastSolid : TRUE) - 1)
            ELSE jsonText
        opens == {i \in 1..Len(jsonText) : jsonText[i] = "["}
        first == CHOOSE i \in opens : \A k \in opens : i <= k
        closes == {j \in 1..Len(jsonText) : jsonText[j] = "}" /\ j > first}
    IN  IF lastValidIndex > 0
        THEN IF lastCompleteObject > 0
             THEN SubSeq(jsonText, 1, lastCompleteObject + 1) \o <<"]">>
             ELSE noTrailingComma \o <<"]">>
        ELSE IF opens # {} /\ closes # {}
             THEN SubSeq(jsonText, first,
                         MoreObjects(jsonText,
                                     CHOOSE j \in closes : \A k \in closes : j <= k))
                  \o <<"]">>
             ELSE jsonText

\* Lines 325-353: products.map(...).filter(...). Reading a field of null throws.
ToProducts(items) ==
    IF \E i \in 1..Len(items) : items[i].type = "null"
    THEN [threw |-> TRUE, products |-> <<>>]
    ELSE LET product(item) ==
                 IF item.type = "obj"
                 THEN [title |-> IF item.title # "" THEN item.title
                                 ELSE "Similar Product",
                       hasPrice |-> item.price, hasFeatures |-> item.features]
                 ELSE [title |-> "Similar Product", hasPrice |-> FALSE,
                       hasFeatures |-> FALSE]
             all == [i \in 1..Len(items) |-> product(items[i])]
         IN  [threw |-> FALSE,
              products |-> SelectSeq(all, LAMBDA q : q.title # "Similar Product")]

\* The body of the outer try block (lines 242-353)
ParseBody(response) ==
    LET jsonText == ArraySpan(StripFences(response))
        first == JSONParse(jsonText)
        second == JSONParse(FixTruncated(jsonText))
    IN  IF first.ok
        THEN IF first.val.type # "arr"
             THEN [threw |-> TRUE, products |-> <<>>]
             ELSE ToProducts(first.val.items)
        ELSE IF ~second.ok
             THEN [threw |-> FALSE, products |-> <<>>]
             ELSE IF second.val.type # "arr"
                  THEN [threw |-> TRUE, products |-> <<>>]
                  ELSE ToProducts(second.val.items)

\* The function without its outer try/catch.
parsePerplexityResponse_nocatch(response) == ParseBody(response)

\* Lines 240-361: whatever the body throws is caught and [] returned
parsePerplexityResponse(response) ==
    LET body == ParseBody(response)
    IN  IF body.threw THEN [threw |-> FALSE, products |-> <<>>] ELSE body

(***************************************************************************)
(* Cache (src/unnamed/part_007)                                            *)
(***************************************************************************)
\* null / undefined where the code returns or stores an object
NoValue == [null |-> TRUE]

DefaultTTL == 86400000

\* Cache.get(key) at time t. The storage is a function from the keys present to
\* their entries; an entry is evicted only when t > expiresAt (line 26).
CacheGet(storage, key, t) ==
    IF key \notin DOMAIN storage
    THEN [hit |-> FALSE, data |-> NoValue, storage |-> storage]
    ELSE IF t > storage[key].expiresAt
         THEN [hit |-> FALSE, data |-> NoValue,
               storage |-> [k \in (DOMAIN storage) \ {key} |-> storage[k]]]
         ELSE [hit |-> TRUE, data |-> storage[key].data, storage |-> storage]

\* A set that leaves an entry already stored under the key as it is.
CacheSet_keepFirst(storage, key, data, ttl, t) ==
    [k \in (DOMAIN storage) \cup {key} |->
        IF k \in DOMAIN storage THEN storage[k]
        ELSE [data |-> data, timestamp |-> t,
              expiresAt |-> t + (IF ttl # 0 THEN ttl ELSE DefaultTTL)]]

\* Cache.set(key, data, ttl) at time t
CacheSet(storage, key, data, ttl, t) ==
    [k \in (DOMAIN storage) \cup {key} |->
        IF k = key
        THEN [data |-> data, timestamp |-> t,
              expiresAt |-> t + (IF ttl # 0 THEN ttl ELSE DefaultTTL)]
        ELSE storage[k]]

(***************************************************************************)
(* RecommendationEngine (src/src/services/recommendationEngine.ts)         *)
(* A score or an average is the exact fraction [n, d], d > 0, of the       *)
(* code's floating-point expression.                                       *)
(***************************************************************************)
RECURSIVE SumSeq(_)
\* Array.prototype.reduce((sum, x) => sum + x, 0)
SumSeq(s) == IF s = <<>> THEN 0 ELSE s[1] + SumSeq(Tail(s))

RECURSIVE GCD(_, _)
GCD(a, b) == IF b = 0 THEN a ELSE GCD(b, a % b)

\* The fraction n / d in lowest terms (n >= 0, d > 0)
Frac(n, d) == [n |-> n \div GCD(n, d), d |-> d \div GCD(n, d)]

\* a > b for fractions
FracGt(a, b) == a.n * b.d > b.n * a.d

\* Array.prototype.sort((a, b) => b.score - a.score): stable, descending
SortByScoreDesc(seq) ==
    LET n == Len(seq)
        rank(i) == 1 + Cardinality({j \in 1..n :
                        \/ FracGt(seq[j].score, seq[i].score)
                        \/ j < i /\ ~FracGt(seq[i].score, seq[j].score)})
    IN  [r \in 1..n |-> seq[CHOOSE i \in 1..n : rank(i) = r]]

\* The first three categories in order of first occurrence, counts ignored.
TopCategories_firstSeen(products) ==
    LET cats == [i \in 1..Len(products) |-> products[i].category]
        idx == SelectSeq([i \in 1..Len(cats) |-> i],
                         LAMBDA i : ~\E j \in 1..(i - 1) : cats[j] = cats[i])
    IN  [k \in 1..(IF Len(idx) < 3 THEN Len(idx) ELSE 3) |-> cats[idx[k]]]

\* Lines 297-316: Object.entries of the per-category counts (keys in order of
\* first occurrence), sorted by count descending, the first three categories
TopCategories(products) ==
    LET cats == [i \in 1..Len(products) |-> products[i].category]
        idx == SelectSeq([i \in 1..Len(cats) |-> i],
                         LAMBDA i : ~\E j \in 1..(i - 1) : cats[j] = cats[i])
        firsts == [k \in 1..Len(idx) |-> cats[idx[k]]]
        count(c) == Cardinality({i \in 1..Len(cats) : cats[i] = c})
        entries == [i \in 1..Len(firsts) |->
                        [category |-> firsts[i],
                         score |-> [n |-> count(firsts[i]), d |-> 1]]]
        sorted == SortByScoreDesc(entries)
    IN  [i \in 1..(IF Len(sorted) < 3 THEN Len(sorted) ELSE 3) |->
            sorted[i].category]

\* Lines 274-329
analyzeSwipePatterns(preferences) ==
    LET liked == preferences.likedProducts
        disliked == preferences.dislikedProducts
        prices(ps) == [i \in 1..Len(ps) |-> ps[i].priceNumeric]
        avg(ps) == IF Len(ps) > 0 THEN [n |-> SumSeq(prices(ps)), d |-> Len(ps)]
                   ELSE [n |-> 0, d |-> 1]
        likedRatings == SelectSeq([i \in 1..Len(liked) |-> liked[i].rating],
                                  LAMBDA r : r # NoRating)
    IN  [avgLikedPrice |-> avg(liked),
         avgDislikedPrice |-> avg(disliked),
         preferredCategories |-> TopCategories(liked),
         avoidedCategories |-> TopCategories(disliked),
         qualityThreshold |->
            IF Len(likedRatings) > 0
            THEN [n |-> SumSeq(likedRatings), d |-> Len(likedRatings)]
            ELSE [n |-> 0, d |-> 1]]

\* Lines 61-82, as the test the caller makes: !(isSimilar < 0.3). With
\* S = p1 + p2 the similarity times 500 S is
\* 300 S [same category] + 150 (S - min(2 |p1 - p2|, S)) + S (50 - |r1 - r2|);
\* for S = 0 the code computes NaN, and NaN < 0.3 is false.
SimilarEnough(product1, product2) ==
    LET S == product1.priceNumeric + product2.priceNumeric
        diff == product1.priceNumeric - product2.priceNumeric
        priceDiff == IF diff < 0 THEN -diff ELSE diff
        rd == product1.rating - product2.rating
        ratingDiff == IF rd < 0 THEN -rd ELSE rd
        sim == (IF product1.category = product2.category THEN 300 * S ELSE 0)
               + 150 * (S - (IF 2 * priceDiff < S THEN 2 * priceDiff ELSE S))
               + (IF Truthy(product1.rating) /\ Truthy(product2.rating)
                  THEN S * (50 - ratingDiff) ELSE 0)
    IN  S = 0 \/ sim >= 150 * S

\* Lines 116-146
calculatePriceScore(product, targetProduct, criteria) ==
    LET level == criteria.priceSensitivity.level
        savings == targetProduct.priceNumeric - product.priceNumeric
        T == targetProduct.priceNumeric
    IN  IF product.priceNumeric < targetProduct.priceNumeric
        THEN IF level = "budget"
             THEN Frac(IF 2 * savings < T THEN 2 * savings ELSE T, T)
             ELSE IF level \in {"premium", "luxury"}
                  THEN Frac(savings, 2 * T)
                  ELSE Frac(savings, T)
        ELSE IF criteria.priceSensitivity.willingToPayMore
                /\ Truthy(product.rating) /\ product.rating >= 45
             THEN [n |-> 6, d |-> 10]
             ELSE [n |-> 3, d |-> 10]

\* Lines 151-185. A weight of 0 is falsy and counts as 1. The per-goal terms are
\* in fiftieths (0.8 is 40, rating / 5 is the rating in tenths, 0.9 is 45).
calculateGoalAlignment(product, criteria) ==
    LET goals == criteria.userGoals
        weight(g) == IF criteria.goalWeights[g] # 0 THEN criteria.goalWeights[g]
                     ELSE 1
        saveMoney == IF "save-money" \in goals
                     THEN (IF product.priceNumeric < 50 THEN 40 ELSE 20)
                          * weight("save-money")
                     ELSE 0
        qualityFirst == IF "quality-first" \in goals
                        THEN (IF Truthy(product.rating) THEN product.rating ELSE 25)
                             * weight("quality-first")
                        ELSE 0
        eco == IF "eco-friendly" \in goals
               THEN (IF isEco(product.title) THEN 45 ELSE 15) * weight("eco-friendly")
               ELSE 0
    IN  IF Cardinality(goals) > 0
        THEN Frac(saveMoney + qualityFirst + eco, 50 * Cardinality(goals))
        ELSE [n |-> 1, d |-> 2]

\* Lines 89-111: 0.4 priceScore + 0.3 rating / 5 + 0.3 goalScore
calculateRecommendationScore(product, targetProduct, criteria) ==
    LET ps == calculatePriceScore(product, targetProduct, criteria)
        q == IF Truthy(product.rating) THEN Frac(product.rating, 50)
             ELSE [n |-> 0, d |-> 1]
        gs == calculateGoalAlignment(product, criteria)
    IN  Frac(4 * ps.n * q.d * gs.d + 3 * q.n * ps.d * gs.d + 3 * gs.n * ps.d * q.d,
             10 * ps.d * q.d * gs.d)

\* Lines 16-58. generateReasons (190-233), calculateSavings (238-240) and
\* getBetterMatches (245-269) are the LET definitions; savings 0 and
\* betterMatch <<>> stand for undefined.
findBetterAlternatives(targetProduct, allProducts, criteria) ==
    LET savings(product) == targetProduct.priceNumeric - product.priceNumeric
        higherRated(product) ==
            /\ Truthy(product.rating) /\ Truthy(targetProduct.rating)
            /\ product.rating > targetProduct.rating
        reasons(product) ==
            LET all ==
                  (IF savings(product) > 0 THEN <<"save">> ELSE <<>>)
               \o (IF higherRated(product) THEN <<"higher-rated">> ELSE <<>>)
               \o (IF "save-money" \in criteria.userGoals
                      /\ product.priceNumeric < targetProduct.priceNumeric
                   THEN <<"goal-save-money">> ELSE <<>>)
               \o (IF "quality-first" \in criteria.userGoals
                      /\ Truthy(product.rating) /\ product.rating >= 45
                   THEN <<"high-quality">> ELSE <<>>)
               \o (IF "eco-friendly" \in criteria.userGoals /\ isEco(product.title)
                   THEN <<"eco-option">> ELSE <<>>)
               \o (IF product.category = targetProduct.category
                   THEN <<"same-category">> ELSE <<>>)
            IN  SubSeq(all, 1, IF Len(all) < 4 THEN Len(all) ELSE 4)
        betterMatch(product) ==
               (IF "save-money" \in criteria.userGoals
                   /\ product.priceNumeric < targetProduct.priceNumeric
                THEN <<"save-money">> ELSE <<>>)
            \o (IF "quality-first" \in criteria.userGoals /\ higherRated(product)
                THEN <<"quality-first">> ELSE <<>>)
        score(product) == calculateRecommendationScore(product, targetProduct, criteria)
        keep(product) ==
            /\ product.id # targetProduct.id
            /\ SimilarEnough(targetProduct, product)
            /\ 2 * score(product).n > score(product).d
        kept == SelectSeq(allProducts, keep)
        recommendations ==
            [i \in 1..Len(kept) |->
                [product |-> kept[i],
                 score |-> score(kept[i]),
                 reasons |-> reasons(kept[i]),
                 savings |-> IF savings(kept[i]) > 0 THEN savings(kept[i]) ELSE 0,
                 betterMatch |-> betterMatch(kept[i])]]
        sorted == SortByScoreDesc(recommendations)
    IN  SubSeq(sorted, 1, IF Len(sorted) < 5 THEN Len(sorted) ELSE 5)

(***************************************************************************)
(* ProductAnalyzer.fetchSimilarProducts (src/unnamed/part_010:260-300)     *)
(***************************************************************************)
\* product.title.split(' ').slice(0, 3).join(' ')
FirstThreeWords(title) ==
    LET spaces == {i \in 1..Len(title) : title[i] = " "}
        third == {i \in spaces : Cardinality({j \in spaces : j < i}) = 2}
    IN  IF third = {} THEN title
        ELSE SubSeq(title, 1, (CHOOSE i \in third : TRUE) - 1)

\* The three placeholder candidates. With prices in whole dollars 0.7, 1.2 and
\* 0.9 times the price are exact for the prices that are multiples of 10.
fetchSimilarProducts(product) ==
    LET baseName == FirstThreeWords(product.title)
        rating == product.rating
        low == (IF Truthy(rating) THEN rating ELSE 40) - 3
        high == (IF Truthy(rating) THEN rating ELSE 45) + 3
    IN  << [id |-> "alt-1",
            title |-> baseName \o <<" ", "-", " ", "B", "u", "d", "g", "e", "t", "-",
                                    "F", "r", "i", "e", "n", "d", "l", "y", " ",
                                    "O", "p", "t", "i", "o", "n">>,
            priceNumeric |-> (product.priceNumeric * 7) \div 10,
            category |-> product.category,
            rating |-> IF low > 40 THEN low ELSE 40],
           [id |-> "alt-2",
            title |-> baseName \o <<" ", "-", " ", "P", "r", "e", "m", "i", "u", "m",
                                    " ", "E", "d", "i", "t", "i", "o", "n">>,
            priceNumeric |-> (product.priceNumeric * 12) \div 10,
            category |-> product.category,
            rating |-> IF high < 50 THEN high ELSE 50],
           [id |-> "alt-3",
            title |-> baseName \o <<" ", "-", " ", "E", "c", "o", "-", "F", "r", "i",
                                    "e", "n", "d", "l", "y", " ", "V", "e", "r", "s",
                                    "i", "o", "n">>,
            priceNumeric |-> (product.priceNumeric * 9) \div 10,
            category |-> product.category,
            rating |-> IF Truthy(rating) THEN rating ELSE 45] >>

(***************************************************************************)
(* Validation (src/src/utils/validation.ts)                                *)
(***************************************************************************)
\* ProductSchema on the fields modelled; safeValidateProduct returns null when
\* it fails.
ProductSchemaOk(p) ==
    /\ p.id # ""
    /\ Len(p.title) >= 1 /\ Len(p.title) <= 500
    /\ p.priceNumeric >= 0 /\ p.priceNumeric <= 1000000
    /\ p.category # ""
    /\ (p.rating = NoRating \/ (p.rating >= 0 /\ p.rating <= 50))

(***************************************************************************)
(* Errors and retry (src/unnamed/part_008)                                 *)
(* An error is its name and what isRetryableError looks for in its message.*)
(***************************************************************************)
NoError == [name |-> "none", fetchOrNetwork |-> FALSE, timeout |-> FALSE,
            m5xx |-> FALSE, m4xx |-> FALSE, waitTime |-> 0]

\* new RateLimitError(`Rate limit exceeded. Try again in N seconds.`, waitTime)
RateLimitError(waitTime) == [NoError EXCEPT !.name = "RateLimitError",
                                            !.waitTime = waitTime]

\* new Error(`... API error: 503 - ...`) and new Error(`... API error: 400 - ...`)
Http503 == [NoError EXCEPT !.name = "Error", !.m5xx = TRUE]
Http400 == [NoError EXCEPT !.name = "Error", !.m4xx = TRUE]
\* new Error(`... API error: 429 - ${errorText}`) whose errorText holds a 5
\* followed by two digits, as in "limit of 500 requests"
Http429Quota == [NoError EXCEPT !.name = "Error", !.m4xx = TRUE, !.m5xx = TRUE]

\* Lines 67-94
isRetryableError(error) ==
    IF error.fetchOrNetwork THEN TRUE
    ELSE IF error.timeout THEN TRUE
    ELSE IF error.m5xx THEN TRUE
    ELSE IF error.name = "RateLimitError" THEN FALSE
    ELSE IF error.m4xx THEN FALSE
    ELSE TRUE

MaxRetries == 3
RetryDelay == 1000

\* A loop that waits retryDelay * (attempt + 1) between attempts.
RetryStep_linear(attempt, outcome) ==
    IF outcome.kind = "text" THEN [next |-> "returned", delay |-> 0]
    ELSE IF ~isRetryableError(outcome.error) THEN [next |-> "threw", delay |-> 0]
    ELSE IF attempt = MaxRetries THEN [next |-> "threw", delay |-> 0]
    ELSE [next |-> "retry", delay |-> RetryDelay * (attempt + 1)]

\* One pass of withRetry's loop (lines 31-59) whose fn() settled with `outcome`:
\* return, rethrow, or wait `delay` ms and go round again.
RetryStep(attempt, outcome) ==
    IF outcome.kind = "text" THEN [next |-> "returned", delay |-> 0]
    ELSE IF ~isRetryableError(outcome.error) THEN [next |-> "threw", delay |-> 0]
    ELSE IF attempt = MaxRetries THEN [next |-> "threw", delay |-> 0]
    ELSE [next |-> "retry", delay |-> RetryDelay * 2^attempt]

(***************************************************************************)
(* Gemini service (src/unnamed/part_003)                                   *)
(* A prompt is its fixed opening text (one per call type) followed by the  *)
(* interpolated request content. A reply text is [wrap, body]: the JSON    *)
(* body (or a broken one) bare, inside a markdown fence, or inside prose.  *)
(***************************************************************************)
\* Length of the template text before the first interpolated field
MatchLeadLen == 130
InsightsLeadLen == 175
AlternativesLeadLen == 194
KeyPrefixLen == 100
GeminiTTL == 86400000

PromptLeadLen(callType) ==
    IF callType = "match" THEN MatchLeadLen
    ELSE IF callType = "insights" THEN InsightsLeadLen ELSE AlternativesLeadLen

\* The template literals of analyzeMatchScore, generateProductInsights and
\* analyzeAlternatives
Prompt(callType, content) == [lead |-> callType, body |-> content]

\* Line 67: `gemini:${prompt.substring(0, 100).replace(/\s/g, '')}`. When the
\* opening text is at least 100 characters long the first 100 characters hold
\* none of the request content.
GeminiCacheKey(prompt) ==
    [svc |-> "gemini",
     text |-> IF PromptLeadLen(prompt.lead) >= KeyPrefixLen
              THEN [lead |-> prompt.lead, body |-> NoValue]
              ELSE prompt]

\* callGemini before its first request (lines 65-86), with the limiter asked
\* before the cache.
CallGeminiEntry_limiterFirst(storage, reqs, key, t) ==
    LET got == CacheGet(storage, key, t)
        rl == RateLimiterCheck(reqs, "gemini-api", t)
    IN  IF ~rl.ok
        THEN [status |-> "threw", hit |-> FALSE, value |-> NoValue,
              error |-> RateLimitError(rl.waitTime),
              storage |-> storage, requests |-> rl.requests]
        ELSE [status |-> IF got.hit THEN "returned" ELSE "pending",
              hit |-> got.hit, value |-> got.data, error |-> NoError,
              storage |-> got.storage, requests |-> rl.requests]

\* callGemini before its first request (lines 65-86): the cache, then the limiter
CallGeminiEntry(storage, reqs, key, t) ==
    LET got == CacheGet(storage, key, t)
        rl == RateLimiterCheck(reqs, "gemini-api", t)
    IN  IF got.hit
        THEN [status |-> "returned", hit |-> TRUE, value |-> got.data,
              error |-> NoError, storage |-> got.storage, requests |-> reqs]
        ELSE IF ~rl.ok
             THEN [status |-> "threw", hit |-> FALSE, value |-> NoValue,
                   error |-> RateLimitError(rl.waitTime),
                   storage |-> got.storage, requests |-> rl.requests]
             ELSE [status |-> "pending", hit |-> FALSE, value |-> NoValue,
                   error |-> NoError,
                   storage |-> got.storage, requests |-> rl.requests]

\* GeminiMatchScoreSchema and ProductInsightsSchema (validation.ts:60-92) on a
\* parsed value; "none" is parseJSONResponse called without a schema.
SchemaOk(schema, v) ==
    CASE schema = "match" ->
            /\ v.shape = "match"
            /\ v.score >= 0 /\ v.score <= 100
            /\ v.recommendation \in {"buy", "consider", "skip"}
            /\ (v.confidence = NoRating \/ (v.confidence >= 0 /\ v.confidence <= 100))
      [] schema = "insights" ->
            /\ v.shape = "insights"
            /\ v.summaryLen >= 10 /\ v.summaryLen <= 1000
            /\ v.strengths /\ v.concerns /\ v.rest
      [] OTHER -> TRUE

\* Lines 174-222. JSON.parse of the cleaned text succeeds when a well-formed
\* body stands alone; otherwise /\{[\s\S]*\}/ takes the text from the first
\* "{" to the last "}", which is the object itself, or the only element of a
\* one-element array.
parseJSONResponse(response, schema) ==
    LET wrap == IF response.wrap = "fence" THEN "none" ELSE response.wrap
        body == response.body
        direct == wrap = "none" /\ body.kind # "broken"
        extracted ==
            IF body.kind = "object" THEN [ok |-> TRUE, val |-> body]
            ELSE IF body.kind = "array" /\ Len(body.items) = 1
                 THEN [ok |-> TRUE, val |-> body.items[1]]
                 ELSE [ok |-> FALSE]
    IN  IF direct /\ SchemaOk(schema, body)
        THEN [threw |-> FALSE, value |-> body]
        ELSE IF extracted.ok /\ SchemaOk(schema, extracted.val)
             THEN [threw |-> FALSE, value |-> extracted.val]
             ELSE [threw |-> TRUE, value |-> NoValue]

\* analyzeMatchScore after callGemini settled (lines 304-305); `settled` is
\* [threw, value]: callGemini's rejection or the text it returned.
analyzeMatchScore(settled) ==
    IF settled.threw THEN [threw |-> TRUE, value |-> NoValue]
    ELSE parseJSONResponse(settled.value, "match")

\* generateProductInsights after callGemini settled (lines 362-363), followed by
\* the checks of ProductAnalyzer.generateInsights (part_010:335-342)
generateInsights(settled) ==
    LET parsed == IF settled.threw THEN [threw |-> TRUE, value |-> NoValue]
                  ELSE parseJSONResponse(settled.value, "insights")
    IN  IF parsed.threw THEN parsed
        ELSE IF parsed.value.kind # "object"
                \/ parsed.value.summaryLen = 0
                \/ ~parsed.value.strengths \/ ~parsed.value.concerns
             THEN [threw |-> TRUE, value |-> NoValue]
             ELSE parsed

\* analyzeAlternatives after callGemini settled (lines 429-475). results.map
\* throws unless the parsed value is an array; each result is mapped back to
\* the candidate with the same title, else to one whose title contains (or is
\* contained in) the first 20 characters of the other, else kept with its own
\* title (the first candidate's when it contains 'Alternative').
analyzeAlternatives(alternatives, settled) ==
    LET parsed == IF settled.threw THEN [threw |-> TRUE, value |-> NoValue]
                  ELSE parseJSONResponse(settled.value, "none")
        first20(str) == SubSeq(str, 1, IF Len(str) < 20 THEN Len(str) ELSE 20)
        exact(title) == {i \in 1..Len(alternatives) : alternatives[i].title = title}
        partial(title) ==
            {i \in 1..Len(alternatives) :
                \/ includes(toLowerCase(alternatives[i].title),
                            first20(toLowerCase(title)))
                \/ includes(toLowerCase(title),
                            first20(toLowerCase(alternatives[i].title)))}
        least(S) == CHOOSE i \in S : \A j \in S : i <= j
        product(p) ==
            IF exact(p.title) # {} THEN alternatives[least(exact(p.title))]
            ELSE IF p.title # <<>> /\ partial(p.title) # {}
                 THEN alternatives[least(partial(p.title))]
                 ELSE [id |-> "",
                       title |-> IF p.title # <<>>
                                    /\ ~includes(p.title, <<"A", "l", "t", "e", "r",
                                                            "n", "a", "t", "i", "v",
                                                            "e">>)
                                 THEN p.title
                                 ELSE IF alternatives # <<>>
                                      THEN alternatives[1].title ELSE p.title,
                       priceNumeric |-> p.priceNumeric, category |-> p.category,
                       rating |-> p.rating]
    IN  IF parsed.threw \/ parsed.value.kind # "array"
        THEN [threw |-> TRUE, value |-> <<>>]
        ELSE LET results == parsed.value.items
             IN  [threw |-> FALSE,
                  value |-> SortByScoreDesc(
                      [i \in 1..Len(results) |->
                          [product |-> product(results[i].product),
                           score |-> [n |-> results[i].score, d |-> 100],
                           reasons |-> results[i].reasons,
                           savings |-> results[i].savings]])]

(***************************************************************************)
(* Perplexity service (src/unnamed/part_004)                               *)
(***************************************************************************)
PerplexityTTL == 43200000

\* Line 51: `perplexity:${validatedProduct.id}:${validatedProduct.title.substring(0, 50)}`
PerplexityCacheKey(product) ==
    [svc |-> "perplexity", id |-> product.id,
     title |-> SubSeq(product.title, 1,
                      IF Len(product.title) < 50 THEN Len(product.title) ELSE 50)]

\* searchSimilarProducts before its first request (lines 44-71). An invalid
\* target and a rejection by the limiter (caught at line 102) both return [].
SearchEntry(storage, reqs, product, t) ==
    LET got == CacheGet(storage, PerplexityCacheKey(product), t)
        rl == RateLimiterCheck(reqs, "perplexity-api", t)
    IN  IF ~ProductSchemaOk(product)
        THEN [status |-> "returned", hit |-> FALSE, value |-> <<>>,
              error |-> NoError, storage |-> storage, requests |-> reqs]
        ELSE IF got.hit
             THEN [status |-> "returned", hit |-> TRUE, value |-> got.data,
                   error |-> NoError, storage |-> got.storage, requests |-> reqs]
             ELSE IF ~rl.ok
                  THEN [status |-> "returned", hit |-> FALSE, value |-> <<>>,
                        error |-> RateLimitError(rl.waitTime),
                        storage |-> got.storage, requests |-> rl.requests]
                  ELSE [status |-> "pending", hit |-> FALSE, value |-> <<>>,
                        error |-> NoError,
                        storage |-> got.storage, requests |-> rl.requests]

\* Lines 88-93: parsePerplexityResponse and the Product built from each item
\* (lines 325-352: the item's price, else 80% of the target's; the target's
\* category and rating), then safeValidateProduct on each. The title member
\* "tA" is the title A, the price member is "$10".
ValidProducts(parsed, targetProduct) ==
    LET title(tok) == IF tok = "tA" THEN <<"A">>
                      ELSE IF tok = "tB" THEN <<"B">> ELSE <<"C">>
        ids == <<"perplexity-0", "perplexity-1", "perplexity-2">>
        products == [i \in 1..Len(parsed) |->
                        [id |-> ids[i],
                         title |-> title(parsed[i].title),
                         priceNumeric |-> IF parsed[i].hasPrice THEN 10
                                          ELSE (targetProduct.priceNumeric * 8) \div 10,
                         category |-> targetProduct.category,
                         rating |-> IF Truthy(targetProduct.rating)
                                    THEN targetProduct.rating ELSE 40]]
    IN  SelectSeq(products, ProductSchemaOk)

\* Lines 88-93: const products = this.parsePerplexityResponse(response, product),
\* then the validation of each
SearchProducts(response, targetProduct) ==
    ValidProducts(parsePerplexityResponse(response).products, targetProduct)

(***************************************************************************)
(* ProductAnalyzer.analyzeProduct (src/unnamed/part_010:17-171)            *)
(***************************************************************************)
\* Lines 57-61: the placeholder candidates replace an empty search result
AlternativesOf_noFallback(searched, currentProduct) == searched

AlternativesOf(searched, currentProduct) ==
    IF Len(searched) = 0 THEN fetchSimilarProducts(currentProduct) ELSE searched

\* A catch block that answers with a fixed neutral verdict.
ShouldBuyOf_neutral(match, product, criteria, patterns) ==
    IF ~match.threw
    THEN [recommendation |-> match.value.recommendation,
          reasons |-> match.value.reasons, score |-> match.value.score,
          confidence |-> match.value.confidence]
    ELSE [recommendation |-> "consider", reasons |-> <<>>, score |-> 50]

\* A catch block that leaves shouldBuy unset.
ShouldBuyOf_unset(match, product, criteria, patterns) ==
    IF ~match.threw
    THEN [recommendation |-> match.value.recommendation,
          reasons |-> match.value.reasons, score |-> match.value.score,
          confidence |-> match.value.confidence]
    ELSE NoValue

\* Lines 76-109: the Gemini analysis, or determineShouldBuy when it threw
ShouldBuyOf(match, product, criteria, patterns) ==
    IF ~match.threw
    THEN [recommendation |-> match.value.recommendation,
          reasons |-> match.value.reasons, score |-> match.value.score,
          confidence |-> match.value.confidence]
    ELSE determineShouldBuy(product, criteria, patterns)

\* A catch block that empties the list instead of keeping the rule-based one.
RecommendationsOf_dropped(alts, recommendations) ==
    IF ~alts.threw
    THEN [i \in 1..Len(alts.value) |->
             [product |-> alts.value[i].product, score |-> alts.value[i].score,
              reasons |-> alts.value[i].reasons, savings |-> alts.value[i].savings]]
    ELSE <<>>

\* Lines 116-137: the Gemini ranking, or the rule-based recommendations of
\* line 64 when analyzeAlternatives threw
RecommendationsOf(alts, recommendations) ==
    IF ~alts.threw
    THEN [i \in 1..Len(alts.value) |->
             [product |-> alts.value[i].product, score |-> alts.value[i].score,
              reasons |-> alts.value[i].reasons, savings |-> alts.value[i].savings]]
    ELSE recommendations

\* A catch block that answers with stock insights instead of null.
InsightsOf_stock(generated) ==
    IF generated.threw
    THEN [kind |-> "object", shape |-> "insights", summaryLen |-> 40,
          strengths |-> TRUE, concerns |-> TRUE, rest |-> TRUE]
    ELSE generated.value

\* Lines 145-153: the insights, or null when generateInsights threw
InsightsOf(generated) == IF generated.threw THEN NoValue ELSE generated.value

NoCall == [svc |-> "none", type |-> "none", key |-> NoValue, content |-> NoValue,
           status |-> "none", hit |-> FALSE, value |-> NoValue, error |-> NoError,
           attempt |-> 0, sent |-> 0, reqsBefore |-> <<>>]

\* The activation record of a service call from what its entry decided; the
\* first request is on its way when the entry neither returned nor threw.
CallOf(svc, type, key, content, entry, reqsBefore) ==
    [svc |-> svc, type |-> type, key |-> key, content |-> content,
     status |-> entry.status, hit |-> entry.hit, value |-> entry.value,
     error |-> entry.error, attempt |-> 0,
     sent |-> IF entry.status = "pending" THEN 1 ELSE 0,
     reqsBefore |-> reqsBefore]

\* What the awaited service call settled with, as the caller sees it
Settled(c) == [threw |-> c.status = "threw", value |-> c.value]

AnalysisIdle ==
    [pc |-> "idle", product |-> NoValue, criteria |-> NoValue, patterns |-> NoValue,
     searched |-> <<>>, alternativeProducts |-> <<>>, recommendations |-> <<>>,
     match |-> NoValue, shouldBuy |-> NoValue, alts |-> NoValue,
     aiRecommendations |-> <<>>, insights |-> NoValue, result |-> NoValue]

EmptyCache == [k \in {} |-> NoValue]

\* No attempt has been raced yet: no response and no timer is outstanding
\* from a decided race, and no settlement has been ignored
NoLate == [responses |-> {}, timers |-> 0, ignored |-> "none"]

\* A CartInterceptor after construction: no click handled yet, nothing shown
CartIdle == [isAnalyzing |-> FALSE, loading |-> FALSE, handlers |-> <<>>,
             shown |-> NoValue,
             modalOpen |-> FALSE, toast |-> "none"]

\* SupabaseSync.userId is null, the users table has no record of this user
\* and no modal callback has been invoked
NoTelemetry == [pc |-> "none", userId |-> FALSE, upserted |-> FALSE,
                decision |-> "none",
                recommendation |-> "none", score |-> 0,
                attemptThrew |-> FALSE, decisionThrew |-> FALSE,
                inserted |-> FALSE, logged |-> "none"]

\* No library call has been made on its own
NoUnit == [op |-> "none"]

SideIdle ==
    /\ late = NoLate
    /\ ci = CartIdle
    /\ tele = NoTelemetry
    /\ unit = NoUnit

PipeIdle ==
    /\ store = [criteria |-> NoValue, preferences |-> NoValue]
    /\ cache = EmptyCache
    /\ wrote = EmptyCache
    /\ an = AnalysisIdle
    /\ call = NoCall

(***************************************************************************)
(* SpecRL: the rate limiter alone, driven by checks and clock advances.    *)
(***************************************************************************)
MaxTicks == 3
ClockSteps == {1, 59999}
RLKeys == {"gemini-api"}

RLFresh ==
    /\ now = 0
    /\ requests = [k \in ServiceKeys |-> <<>>]
    /\ granted = [k \in ServiceKeys |-> <<>>]
    /\ rlLast = NoCheck
    /\ ticks = 0

NoScore == [called |-> FALSE]

NoParse == [called |-> FALSE]

ParseIdle ==
    /\ ptext = <<>>
    /\ pgen = [mode |-> "none"]
    /\ presult = NoParse

InitRL ==
    /\ RLFresh
    /\ scorer = NoScore
    /\ ParseIdle
    /\ PipeIdle
    /\ SideIdle

RLCheck(key) ==
    LET r == RateLimiterCheck(requests, key, now)
        before == Len(GrantedInWindow(granted, key, now))
    IN  /\ requests' = r.requests
        /\ rlLast' = [key |-> key, ok |-> r.ok, waitTime |-> r.waitTime,
                      at |-> now, inWindowBefore |-> before,
                      afterRejection |-> (rlLast.key = key /\ ~rlLast.ok)]
        /\ granted' = [granted EXCEPT ![key] =
                          IF r.ok THEN Append(GrantedInWindow(granted, key, now), now)
                                  ELSE GrantedInWindow(granted, key, now)]
        /\ UNCHANGED <<now, ticks, scorer, sideVars, parseVars, pipeVars>>

RLAdvance(dt) ==
    /\ ticks < MaxTicks
    /\ now' = now + dt
    /\ ticks' = ticks + 1
    /\ UNCHANGED <<requests, granted, rlLast, scorer, sideVars, parseVars, pipeVars>>

NextRL ==
    \/ \E key \in RLKeys : RLCheck(key)
    \/ \E dt \in ClockSteps : RLAdvance(dt)

SpecRL == InitRL /\ [][NextRL]_vars

\* C6: once maxRequests checks of one key have succeeded and are all still inside
\* the window, the next check of that key is rejected; and every rejection carries
\* a wait time w with 0 < w <= windowMs (Gemini: the 11th call within 60000 ms).
C6_EleventhCallRejectedWithBoundedWait ==
    rlLast.key # "none" =>
        /\ (rlLast.inWindowBefore >= maxRequests(rlLast.key) => ~rlLast.ok)
        /\ (~rlLast.ok => /\ rlLast.waitTime > 0
                          /\ rlLast.waitTime <= windowMs(rlLast.key))

\* The 11th Gemini check, 59999 ms after ten checks made in the same millisecond.
C6_Witness ==
    /\ rlLast.key = "gemini-api"
    /\ ~rlLast.ok
    /\ rlLast.inWindowBefore = GeminiMaxRequests
    /\ rlLast.waitTime = 1

\* C12: for every service key, the checks that succeeded inside the rolling
\* window ending now (now - windowMs < t <= now) number at most maxRequests.
\* Every window ends no later than some successful check it contains, and
\* the state right after that check is covered, so this bounds every window.
C12_AtMostMaxRequestsPerWindow ==
    \A key \in ServiceKeys :
        /\ Len(GrantedInWindow(granted, key, now)) <= maxRequests(key)
        /\ \A i \in 1..Len(granted[key]) : granted[key][i] <= now

\* Ten checks granted at time 0 have left the window and ten more have been
\* granted at time 60000.
C12_Witness ==
    /\ rlLast.key = "gemini-api" /\ rlLast.ok
    /\ rlLast.inWindowBefore = GeminiMaxRequests - 1
    /\ rlLast.at = GeminiWindowMs
    /\ Len(GrantedInWindow(granted, "gemini-api", now)) = GeminiMaxRequests

\* C28: after a check of a key was rejected at time t with wait time w, a
\* check of that key made before t + w is rejected too, reports the same
\* instant t + w and leaves the stored history as it was, and the first
\* check made at t + w or later succeeds.
C28_WaitTimeIsExact ==
    [][(rlLast' # rlLast /\ ~rlLast.ok /\ rlLast'.key = rlLast.key) =>
          IF now < rlLast.at + rlLast.waitTime
          THEN /\ ~rlLast'.ok
               /\ rlLast'.at + rlLast'.waitTime = rlLast.at + rlLast.waitTime
               /\ requests' = requests
          ELSE rlLast'.ok]_vars

\* A check granted at time 60000, exactly when the wait reported by the
\* rejected check before it had passed
C28_Witness ==
    /\ rlLast.ok /\ rlLast.afterRejection
    /\ rlLast.at = GeminiWindowMs
    /\ rlLast.inWindowBefore < GeminiMaxRequests

(***************************************************************************)
(* SpecScore: determineShouldBuy applied to enumerated arguments.          *)
(***************************************************************************)
Goals == {"save-money", "quality-first", "eco-friendly"}

InitScore ==
    /\ RLFresh
    /\ ParseIdle
    /\ PipeIdle
    /\ SideIdle
    /\ \E title \in Titles, priceNumeric \in {40, 60, 101, 150},
          category \in Categories, rating \in {NoRating, 0, 30, 45},
          userGoals \in SUBSET Goals,
          avgLikedPrice \in {[n |-> 0, d |-> 1], [n |-> 50, d |-> 1],
                             [n |-> 250, d |-> 3]},
          qualityThreshold \in {[n |-> 0, d |-> 1], [n |-> 45, d |-> 1],
                                [n |-> 91, d |-> 2]},
          preferredCategories \in {<<>>, <<"Electronics">>, <<"Home", "Electronics">>},
          avoidedCategories \in {<<>>, <<"Electronics">>, <<"Home">>} :
          scorer = [called |-> FALSE,
                    product |-> [id |-> "p1", title |-> title,
                                 priceNumeric |-> priceNumeric,
                                 category |-> category, rating |-> rating],
                    criteria |-> [userGoals |-> userGoals],
                    patterns |-> [avgLikedPrice |-> avgLikedPrice,
                                  qualityThreshold |-> qualityThreshold,
                                  preferredCategories |-> preferredCategories,
                                  avoidedCategories |-> avoidedCategories]]

CallDetermineShouldBuy ==
    /\ ~scorer.called
    /\ scorer' = [called |-> TRUE, product |-> scorer.product,
                  criteria |-> scorer.criteria, patterns |-> scorer.patterns,
                  result |-> determineShouldBuy(scorer.product, scorer.criteria,
                                                scorer.patterns)]
    /\ UNCHANGED <<rlVars, parseVars, pipeVars, sideVars>>

NextScore == CallDetermineShouldBuy

SpecScore == InitScore /\ [][NextScore]_vars

\* C3: the score determineShouldBuy returns lies in [0, 1] and its recommendation
\* is the bucket of that returned score: buy iff s >= 0.7, consider iff
\* 0.4 <= s < 0.7, skip iff s < 0.4.
C3_ScoreInRangeAndBucketed ==
    scorer.called =>
        LET s == scorer.result.score
            r == scorer.result.recommendation
        IN  /\ 0 <= s /\ s <= 100
            /\ r \in {"buy", "consider", "skip"}
            /\ (r = "buy") <=> (s >= 70)
            /\ (r = "consider") <=> (40 <= s /\ s < 70)
            /\ (r = "skip") <=> (s < 40)

\* A result whose score sits exactly on the buy threshold, and one that was clamped.
C3_Witness ==
    /\ scorer.called
    /\ scorer.result.score = 70
    /\ scorer.result.recommendation = "buy"

(***************************************************************************)
(* SpecParse: reply texts and parsePerplexityResponse applied to them.     *)
(* In mode "json" the text is written token by token the way a service     *)
(* serialises a JSON array (pgen.stack is the writer's nesting, pgen.k the *)
(* number of top-level elements written completely), with an optional      *)
(* fence or word before and after, and a possible cut at any point. The    *)
(* members of the (k+1)-th element carry the (k+1)-th title. In mode       *)
(* "free" the text is any token sequence of at most MaxFree tokens.        *)
(***************************************************************************)
MaxLen == 10
MaxFree == 3
MaxElems == 2

InitParse ==
    /\ RLFresh
    /\ scorer = NoScore
    /\ PipeIdle
    /\ SideIdle
    /\ ptext = <<>>
    /\ presult = NoParse
    /\ \E mode \in {"json", "free", "asked"} :
          pgen = [mode |-> mode, stack |-> <<>>, k |-> 0, opened |-> FALSE,
                  closed |-> FALSE, cut |-> FALSE]

\* The writer's state after a complete value has been written in frame `fr`
AfterValue(fr) == IF fr = "Of" THEN "Oe" ELSE "Ae"

\* One more token of the reply arrives
WriteToken(c) ==
    /\ pgen.mode = "json"
    /\ ~presult.called
    /\ ~pgen.cut
    /\ Len(ptext) < MaxLen
    /\ LET st == pgen.stack
           n == Len(st)
           top == IF n = 0 THEN "none" ELSE st[n]
           setTop(fr) == [st EXCEPT ![n] = fr]
           pop == SubSeq(st, 1, n - 1)
           wantsValue == top \in {"A0", "Av", "Of"}
           wantsMember == top \in {"O0", "Om"}
       IN  \/ /\ ~pgen.opened
              /\ \/ ptext = <<>> /\ c \in {"F", "w"} /\ pgen' = pgen
                 \/ c = "[" /\ pgen' = [pgen EXCEPT !.opened = TRUE,
                                                     !.stack = <<"A0">>]
           \/ /\ pgen.closed
              /\ ptext[Len(ptext)] = "]"
              /\ c \in {"F", "w"}
              /\ pgen' = pgen
           \/ /\ pgen.opened /\ ~pgen.closed
              /\ \/ /\ c = "~"
                    /\ pgen' = [pgen EXCEPT !.cut = TRUE]
                 \/ /\ c = " " /\ ptext[Len(ptext)] \in {",", "}"}
                    /\ pgen' = pgen
                 \/ /\ wantsValue /\ c \in {"s", "n"}
                    /\ pgen' = [pgen EXCEPT !.stack = setTop(AfterValue(top)),
                                            !.k = IF n = 1 THEN @ + 1 ELSE @]
                 \/ /\ wantsValue /\ c \in {"[", "{"}
                    /\ pgen' = [pgen EXCEPT !.stack =
                                   Append(setTop(AfterValue(top)),
                                          IF c = "[" THEN "A0" ELSE "O0")]
                 \/ /\ wantsMember
                    /\ \/ c = "p" \/ (pgen.k < Len(TitleToks) /\ c = TitleToks[pgen.k + 1])
                    /\ pgen' = [pgen EXCEPT !.stack = setTop("Oe")]
                 \/ /\ wantsMember /\ c = "f"
                    /\ pgen' = [pgen EXCEPT !.stack = setTop("Of")]
                 \/ /\ top = "Ae" /\ c = ","
                    /\ pgen' = [pgen EXCEPT !.stack = setTop("Av")]
                 \/ /\ top = "Oe" /\ c = ","
                    /\ pgen' = [pgen EXCEPT !.stack = setTop("Om")]
                 \/ /\ \/ top \in {"A0", "Ae"} /\ c = "]"
                       \/ top \in {"O0", "Oe"} /\ c = "}"
                    /\ pgen' = [pgen EXCEPT !.stack = pop,
                                            !.closed = (n = 1),
                                            !.k = IF n = 2 THEN @ + 1 ELSE @]
    /\ ptext' = Append(ptext, c)
    /\ UNCHANGED <<rlVars, scorer, sideVars, presult, pipeVars>>

\* Any token at all, for texts that are no JSON array
WriteAnything(c) ==
    /\ pgen.mode = "free"
    /\ ~presult.called
    /\ Len(ptext) < MaxFree
    /\ ptext' = Append(ptext, c)
    /\ UNCHANGED <<rlVars, scorer, sideVars, pgen, presult, pipeVars>>

\* The i-th element of a reply in the format the query asks for ("JSON array
\* with fields: title, price, ..., features (array), ..."), without or with
\* the features member
AskedElement(i, shape) ==
    IF shape = "plain" THEN <<"{", TitleToks[i], ",", "p", "}">>
    ELSE <<"{", TitleToks[i], ",", "p", ",", "f", "[", "s", "]", "}">>

\* The service writes one more complete element of the asked format
WriteElement(shape) ==
    /\ pgen.mode = "asked"
    /\ ~presult.called
    /\ ~pgen.cut
    /\ pgen.k < MaxElems
    /\ ptext' = (IF pgen.k = 0 THEN <<"[">> ELSE ptext \o <<",">>)
                 \o AskedElement(pgen.k + 1, shape)
    /\ pgen' = [pgen EXCEPT !.k = @ + 1, !.opened = TRUE]
    /\ UNCHANGED <<rlVars, scorer, sideVars, presult, pipeVars>>

\* Generation stops after the first n tokens of the next element, with or
\* without a fragment of the token that was being written
CutElement(shape, n, fragment) ==
    /\ pgen.mode = "asked"
    /\ ~presult.called
    /\ ~pgen.cut
    /\ pgen.k >= 1 /\ pgen.k < Len(TitleToks)
    /\ n \in 1..(Len(AskedElement(pgen.k + 1, shape)) - 1)
    /\ ptext' = ptext \o <<",">>
                 \o SubSeq(AskedElement(pgen.k + 1, shape), 1, n) \o fragment
    /\ pgen' = [pgen EXCEPT !.cut = TRUE]
    /\ UNCHANGED <<rlVars, scorer, sideVars, presult, pipeVars>>

\* const products = parsePerplexityResponse(response, validatedProduct)
ParseReply ==
    /\ ~presult.called
    /\ presult' = [called |-> TRUE] @@ parsePerplexityResponse(ptext)
    /\ UNCHANGED <<rlVars, scorer, sideVars, ptext, pgen, pipeVars>>

NextParse ==
    \/ \E c \in Alphabet \cup {"tC"} : WriteToken(c)
    \/ \E c \in Alphabet : WriteAnything(c)
    \/ \E shape \in {"plain", "features"} : WriteElement(shape)
    \/ \E shape \in {"plain", "features"}, n \in 1..9,
          fragment \in {<<>>, <<"~">>} : CutElement(shape, n, fragment)
    \/ ParseReply

SpecParse == InitParse /\ [][NextParse]_vars

\* The titles of the top-level elements the writer completed, in order
CompleteTitles ==
    [i \in 1..(IF pgen.k < Len(TitleToks) THEN pgen.k ELSE Len(TitleToks)) |->
        TitleToks[i]]

\* C7: parsePerplexityResponse never throws, whatever the text; and for an array
\* text (cut off or not) every product it returns comes from a top-level element
\* that was written completely, in the order written -- never from the element
\* the cut fell in. The empty list is always allowed.
C7_NeverThrowsOnlyCompleteElements ==
    presult.called =>
        /\ ~presult.threw
        /\ pgen.mode = "json" =>
              /\ \A i \in 1..Len(presult.products) :
                    InList(CompleteTitles, presult.products[i].title)
              /\ \A i, j \in 1..Len(presult.products) :
                    i < j =>
                      \E a, b \in 1..Len(TitleToks) :
                          /\ a < b
                          /\ presult.products[i].title = TitleToks[a]
                          /\ presult.products[j].title = TitleToks[b]

\* A reply cut inside its second object, after one complete object, repaired to
\* the product of the complete object.
C7_Witness ==
    /\ presult.called
    /\ pgen.mode = "json" /\ pgen.opened /\ ~pgen.closed
    /\ pgen.k = 1 /\ Len(pgen.stack) >= 2 /\ pgen.stack[2] \in {"O0", "Om", "Oe", "Of"}
    /\ Len(presult.products) = 1
    /\ presult.products[1].title = "tA"

\* C23: for an array reply of elements in the asked format that is cut off
\* inside its (k+1)-th element after k >= 1 complete elements, the products
\* returned are exactly the k complete leading elements, in order.
C23_CutReplyGivesCompleteLeadingElements ==
    (presult.called /\ pgen.mode = "asked" /\ pgen.cut) =>
        /\ Len(presult.products) = pgen.k
        /\ \A i \in 1..pgen.k :
              /\ presult.products[i].title = TitleToks[i]
              /\ presult.products[i].hasPrice

(***************************************************************************)
(* Spec: one analysis of a product against the cache and rate limiters;    *)
(* the services answer each request with a reply text or an HTTP error.    *)
(***************************************************************************)
ProductA == [id |-> "p1", title |-> TitleEcoMug, priceNumeric |-> 60,
             category |-> "Home", rating |-> 45]
ProductB == [id |-> "p2", title |-> TitleMug, priceNumeric |-> 150,
             category |-> "Electronics", rating |-> NoRating]
\* A scraped product without a category: ProductSchema rejects it
ProductC == [id |-> "p3", title |-> TitleMug, priceNumeric |-> 40,
             category |-> "", rating |-> 30]
Products == {ProductA, ProductB, ProductC}

\* storage.getRecommendationCriteria() / storage.getPreferences(): absent, or
\* the data stored at onboarding
StoredCriteria ==
    [userGoals |-> {"save-money", "eco-friendly"},
     goalWeights |-> [g \in Goals |-> IF g = "save-money" THEN 8
                                      ELSE IF g = "eco-friendly" THEN 0 ELSE 5],
     priceSensitivity |-> [level |-> "budget", maxPrice |-> 100,
                           willingToPayMore |-> FALSE]]
StoredPreferences ==
    [likedProducts |->
        << [id |-> "l1", title |-> TitleMug, priceNumeric |-> 40,
            category |-> "Home", rating |-> 45],
           [id |-> "l2", title |-> TitleEcoMug, priceNumeric |-> 60,
            category |-> "Home", rating |-> NoRating],
           [id |-> "l3", title |-> TitleMug, priceNumeric |-> 80,
            category |-> "Electronics", rating |-> 40] >>,
     dislikedProducts |->
        << [id |-> "d1", title |-> TitleMug, priceNumeric |-> 150,
            category |-> "Electronics", rating |-> 30] >>]

\* Gemini checks already recorded by earlier calls in the current millisecond
PriorGeminiCalls == {0, 9, 10}

\* Reply texts of the services
MatchObject(score, recommendation) ==
    [kind |-> "object", shape |-> "match", score |-> score,
     recommendation |-> recommendation, reasons |-> <<"r1">>, confidence |-> 80]
AltItem(title, score) ==
    [kind |-> "object", shape |-> "alt",
     product |-> [title |-> title, priceNumeric |-> 10, category |-> "Home",
                  rating |-> 40],
     score |-> score, reasons |-> <<"r1">>, savings |-> 0]
Broken == [wrap |-> "none", body |-> [kind |-> "broken"]]

Replies(callType) ==
    CASE callType = "match" ->
            {[wrap |-> "fence", body |-> MatchObject(90, "buy")],
             [wrap |-> "none", body |-> MatchObject(90, "skip")],
             [wrap |-> "prose", body |-> MatchObject(150, "buy")],
             Broken}
      [] callType = "alts" ->
            {[wrap |-> "none",
              body |-> [kind |-> "array", shape |-> "array",
                        items |-> <<AltItem(<<"A">>, 60), AltItem(<<"B">>, 85)>>]],
             [wrap |-> "prose",
              body |-> [kind |-> "array", shape |-> "array",
                        items |-> <<AltItem(<<"A">>, 60)>>]],
             [wrap |-> "none",
              body |-> [kind |-> "array", shape |-> "array",
                        items |-> <<AltItem(<<"B">>, 150)>>]],
             Broken}
      [] callType = "insights" ->
            {[wrap |-> "none",
              body |-> [kind |-> "object", shape |-> "insights", summaryLen |-> 40,
                        strengths |-> TRUE, concerns |-> TRUE, rest |-> TRUE]],
             [wrap |-> "none",
              body |-> [kind |-> "object", shape |-> "insights", summaryLen |-> 40,
                        strengths |-> TRUE, concerns |-> FALSE, rest |-> TRUE]],
             Broken}
      [] OTHER ->
            {<<"[", "{", "tA", "p", "}", ",", "{", "tB", "~">>,
             <<"[", "]">>,
             <<"w">>}

\* The HTTP errors a request can end with
ApiErrors == {Http503, Http400, Http429Quota}

PipelineClockSteps == {60000, 86400001}

Init ==
    /\ now = 0
    /\ ticks = 0
    /\ rlLast = NoCheck
    /\ \E n \in PriorGeminiCalls :
          /\ requests = [k \in ServiceKeys |->
                            IF k = "gemini-api" THEN [i \in 1..n |-> 0] ELSE <<>>]
          /\ granted = requests
    /\ scorer = NoScore
    /\ ParseIdle
    /\ store \in [criteria : {NoValue, StoredCriteria},
                  preferences : {NoValue, StoredPreferences}]
    /\ cache = EmptyCache
    /\ wrote = EmptyCache
    /\ an = AnalysisIdle
    /\ call = NoCall
    /\ SideIdle

\* analyzeProduct up to its first await of a service (lines 17-38)
StartAnalysis(currentProduct) ==
    /\ an.pc \in {"idle", "done"}
    /\ IF store.criteria = NoValue
       THEN /\ an' = [AnalysisIdle EXCEPT !.pc = "done", !.product = currentProduct]
            /\ call' = NoCall
            /\ UNCHANGED <<cache, requests>>
       ELSE IF store.preferences = NoValue
            THEN /\ an' = [AnalysisIdle EXCEPT !.pc = "search",
                                               !.product = currentProduct,
                                               !.criteria = store.criteria]
                 /\ call' = [NoCall EXCEPT !.status = "returned", !.value = <<>>]
                 /\ UNCHANGED <<cache, requests>>
            ELSE LET patterns == analyzeSwipePatterns(store.preferences)
                     entry == SearchEntry(cache, requests, currentProduct, now)
                 IN  /\ an' = [AnalysisIdle EXCEPT !.pc = "search",
                                                       !.product = currentProduct,
                                                   !.criteria = store.criteria,
                                                   !.patterns = patterns]
                     /\ call' = CallOf("perplexity", "search",
                                       PerplexityCacheKey(currentProduct),
                                       [product |-> currentProduct,
                                        criteria |-> store.criteria,
                                        patterns |-> patterns],
                                       entry, requests)
                     /\ cache' = entry.storage
                     /\ requests' = entry.requests
    /\ UNCHANGED <<now, ticks, granted, rlLast, scorer, sideVars, parseVars, store, wrote>>

\* The value a call returns, written to the cache first when `stored`
\* (part_003:155-159, part_004:96-101)
Deliver(value, stored) ==
    /\ call' = [call EXCEPT !.status = "returned", !.value = value]
    /\ cache' = IF stored
                THEN CacheSet(cache, call.key, value,
                              IF call.svc = "gemini" THEN GeminiTTL
                              ELSE PerplexityTTL, now)
                ELSE cache
    /\ wrote' = IF stored
                THEN [k \in (DOMAIN wrote) \cup {call.key} |->
                         IF k = call.key
                         THEN [content |-> call.content, returned |-> value]
                         ELSE wrote[k]]
                ELSE wrote

\* part_004:96: if (validatedProducts.length > 0) cache.set(...)
DeliverList(products) == Deliver(products, Len(products) > 0)

\* A reply text arrives for the request in flight: callGemini caches and returns
\* it (part_003:146-160); searchSimilarProducts parses it, caches a non-empty
\* product list and returns the list (part_004:88-101).
RespondText(text) ==
    /\ call.status = "pending"
    /\ IF call.svc = "gemini"
       THEN Deliver(text, TRUE)
       ELSE DeliverList(SearchProducts(text, an.product))
    /\ UNCHANGED <<now, ticks, requests, granted, rlLast, scorer, sideVars, parseVars, store, an>>

\* The request in flight fails: withRetry waits and sends it again, or rethrows;
\* searchSimilarProducts catches what is rethrown and returns [] (part_004:102-106)
RespondError(error) ==
    /\ call.status = "pending"
    /\ LET step == RetryStep(call.attempt, [kind |-> "error", error |-> error])
       IN  IF step.next = "retry"
           THEN /\ ticks < MaxTicks
                /\ ticks' = ticks + 1
                /\ now' = now + step.delay
                /\ call' = [call EXCEPT !.attempt = @ + 1, !.sent = @ + 1]
           ELSE /\ call' = [call EXCEPT
                               !.status = IF call.svc = "gemini" THEN "threw"
                                          ELSE "returned",
                               !.error = error]
                /\ UNCHANGED <<now, ticks>>
    /\ UNCHANGED <<requests, granted, rlLast, scorer, sideVars, parseVars, store, cache, wrote, an>>

\* The entry of callGemini for one call type of the analysis in progress
GeminiCall(callType, content) ==
    LET key == GeminiCacheKey(Prompt(callType, content))
        entry == CallGeminiEntry(cache, requests, key, now)
    IN  /\ call' = CallOf("gemini", callType, key, content, entry, requests)
        /\ cache' = entry.storage
        /\ requests' = entry.requests

\* The search settled (lines 39-73): placeholder candidates if it gave nothing,
\* the rule-based recommendations, then either the result without preferences
\* (lines 165-170) or the match-score call
SearchDone ==
    /\ an.pc = "search"
    /\ call.status = "returned"
    /\ LET alternativeProducts == AlternativesOf(call.value, an.product)
           recommendations == findBetterAlternatives(an.product, alternativeProducts,
                                                     an.criteria)
           after == [an EXCEPT !.searched = call.value,
                               !.alternativeProducts = alternativeProducts,
                               !.recommendations = recommendations]
       IN  IF store.preferences = NoValue
           THEN /\ an' = [after EXCEPT
                             !.pc = "done",
                             !.result = [currentProduct |-> an.product,
                                         recommendations |-> recommendations,
                                         shouldBuy |-> NoValue,
                                         insights |-> NoValue]]
                /\ call' = NoCall
                /\ UNCHANGED <<cache, requests>>
           ELSE /\ an' = [after EXCEPT
                             !.pc = "match",
                             !.patterns = analyzeSwipePatterns(store.preferences)]
                /\ GeminiCall("match",
                              [product |-> an.product, criteria |-> an.criteria,
                               patterns |-> analyzeSwipePatterns(store.preferences)])
    /\ UNCHANGED <<now, ticks, granted, rlLast, scorer, sideVars, parseVars, store, wrote>>

\* The match-score call settled (lines 82-113), then the alternatives call
MatchDone ==
    /\ an.pc = "match"
    /\ call.status \in {"returned", "threw"}
    /\ LET match == analyzeMatchScore(Settled(call))
       IN  an' = [an EXCEPT !.pc = "alts",
                            !.match = [threw |-> match.threw, value |-> match.value,
                                       error |-> call.error],
                            !.shouldBuy = ShouldBuyOf(match, an.product, an.criteria,
                                                      an.patterns)]
    /\ GeminiCall("alts", [product |-> an.product,
                           alternatives |-> an.alternativeProducts,
                           criteria |-> an.criteria])
    /\ UNCHANGED <<now, ticks, granted, rlLast, scorer, sideVars, parseVars, store, wrote>>

\* The alternatives call settled (lines 116-142), then the insights call
AltsDone ==
    /\ an.pc = "alts"
    /\ call.status \in {"returned", "threw"}
    /\ LET alts == analyzeAlternatives(an.alternativeProducts, Settled(call))
       IN  an' = [an EXCEPT !.pc = "insights",
                            !.alts = [threw |-> alts.threw, value |-> alts.value,
                                      error |-> call.error],
                            !.aiRecommendations = RecommendationsOf(alts,
                                                      an.recommendations)]
    /\ GeminiCall("insights", [product |-> an.product, criteria |-> an.criteria,
                               patterns |-> an.patterns,
                               alternatives |-> an.alternativeProducts])
    /\ UNCHANGED <<now, ticks, granted, rlLast, scorer, sideVars, parseVars, store, wrote>>

\* The insights call settled (lines 145-162): the analysis is returned
InsightsDone ==
    /\ an.pc = "insights"
    /\ call.status \in {"returned", "threw"}
    /\ LET insights == InsightsOf(generateInsights(Settled(call)))
       IN  an' = [an EXCEPT !.pc = "done",
                            !.insights = insights,
                            !.result = [currentProduct |-> an.product,
                                        recommendations |-> an.aiRecommendations,
                                        userPatterns |-> an.patterns,
                                        shouldBuy |-> an.shouldBuy,
                                        insights |-> insights]]
    /\ call' = NoCall
    /\ UNCHANGED <<rlVars, scorer, sideVars, parseVars, store, cache, wrote>>

\* Date.now() moves on
Tick(dt) ==
    /\ an.pc \in {"idle", "done"}
    /\ ticks < MaxTicks
    /\ ticks' = ticks + 1
    /\ now' = now + dt
    /\ UNCHANGED <<requests, granted, rlLast, scorer, sideVars, parseVars, store, cache, wrote,
                   an, call>>

\* One analysis, with every reply and error the services can give
Next ==
    \/ \E currentProduct \in Products :
          an.pc = "idle" /\ StartAnalysis(currentProduct)
    \/ \E text \in Replies(call.type) : RespondText(text)
    \/ \E error \in ApiErrors : RespondError(error)
    \/ SearchDone
    \/ MatchDone
    \/ AltsDone
    \/ InsightsDone
    \/ \E dt \in PipelineClockSteps : an.pc = "idle" /\ Tick(dt)

Spec == Init /\ [][Next]_vars

\* The analysis returned with criteria and preferences both stored
Returned == an.pc = "done" /\ store.criteria # NoValue /\ store.preferences # NoValue

\* C1: when the match-score, the alternative-ranking and the insight call of
\* one analyzeProduct run all fail, the analysis returned is not null and its
\* shouldBuy is what determineShouldBuy gives for the same product, the stored
\* criteria and the patterns of the stored preferences.
C1_RuleBasedWhenEveryGeminiCallFails ==
    (Returned /\ an.match.threw /\ an.alts.threw /\ an.insights = NoValue)
    => /\ an.result # NoValue
       /\ an.result.shouldBuy =
             determineShouldBuy(an.product, store.criteria,
                                analyzeSwipePatterns(store.preferences))

\* the match-score request ended in an HTTP error, the ranking reply was
\* rejected after callGemini returned it, and no insights were produced
C1_Witness ==
    /\ Returned /\ an.match.threw /\ an.alts.threw /\ an.insights = NoValue
    /\ an.match.error \in ApiErrors
    /\ an.alts.error = NoError
    /\ an.result.shouldBuy.recommendation \in {"buy", "consider", "skip"}

\* C2 as stated: every analyzeProduct call returns an analysis that is not null
\* and whose shouldBuy is not null, whatever the preference store holds.
C2_AlwaysAnalysisWithShouldBuy ==
    an.pc = "done" => an.result # NoValue /\ an.result.shouldBuy # NoValue

\* C2 as amended: analyzeProduct returns null exactly when no criteria are
\* stored; with criteria stored the analysis is not null, and its shouldBuy is
\* null exactly when no preferences are stored, whatever the search and the
\* Gemini calls did.
C2_NullOnlyWithoutCriteriaOrPreferences ==
    an.pc = "done" =>
        /\ (an.result = NoValue) <=> (store.criteria = NoValue)
        /\ store.criteria # NoValue =>
              ((an.result.shouldBuy = NoValue) <=> (store.preferences = NoValue))

C2_Witness ==
    /\ Returned /\ an.match.threw /\ an.searched = <<>>
    /\ an.match.error = RateLimitError(GeminiWindowMs)
    /\ an.result.shouldBuy # NoValue

\* C4: a match-score analysis that analyzeMatchScore accepted and analyzeProduct
\* returned as shouldBuy has the recommendation that is the bucket of its score
\* (buy from 0.7, consider from 0.4, else skip).
C4_AIRecommendationIsBucketOfScore ==
    (Returned /\ ~an.match.threw)
    => an.result.shouldBuy.recommendation = RecommendationOf(an.result.shouldBuy.score)

\* The records analyzeProduct builds from an accepted Gemini ranking
AIRanking(value) ==
    [i \in 1..Len(value) |->
        [product |-> value[i].product, score |-> value[i].score,
         reasons |-> value[i].reasons, savings |-> value[i].savings]]

\* C9: in the analysis returned, shouldBuy is the rule-based verdict if the
\* match-score call failed and the accepted Gemini analysis if it did not;
\* recommendations is the rule-based list (the one findBetterAlternatives gave
\* after the search) if the alternative-ranking call failed and the accepted
\* Gemini ranking if it did not; each independently of the other call types.
C9_FallbackPerCallType ==
    Returned =>
        /\ an.result.shouldBuy =
              IF an.match.threw
              THEN determineShouldBuy(an.product, store.criteria,
                                      analyzeSwipePatterns(store.preferences))
              ELSE [recommendation |-> an.match.value.recommendation,
                    reasons |-> an.match.value.reasons,
                    score |-> an.match.value.score,
                    confidence |-> an.match.value.confidence]
        /\ an.result.recommendations =
              IF an.alts.threw THEN an.recommendations
              ELSE AIRanking(an.alts.value)

\* the match-score call was the 10th Gemini check of the minute and succeeded,
\* the alternative-ranking call was the 11th and was rejected
C9_Witness ==
    /\ Returned /\ ~an.match.threw /\ an.alts.threw
    /\ an.alts.error = RateLimitError(GeminiWindowMs)
    /\ an.result.shouldBuy.confidence = 80
    /\ an.result.recommendations # <<>>

\* C10: once the search has settled, the candidate list is not empty; when the
\* search gave nothing it is the three placeholders, priced 0.7, 1.2 and 0.9
\* times the target in the target's category; and the list handed to
\* analyzeAlternatives is that list.
C10_PlaceholdersWhenSearchGivesNothing ==
    /\ an.pc \in {"match", "alts", "insights"} \/ (an.pc = "done" /\ an.result # NoValue)
       => /\ an.alternativeProducts # <<>>
          /\ an.searched = <<>> =>
                /\ Len(an.alternativeProducts) = 3
                /\ 10 * an.alternativeProducts[1].priceNumeric
                      = 7 * an.product.priceNumeric
                /\ 10 * an.alternativeProducts[2].priceNumeric
                      = 12 * an.product.priceNumeric
                /\ 10 * an.alternativeProducts[3].priceNumeric
                      = 9 * an.product.priceNumeric
                /\ \A i \in 1..3 :
                      an.alternativeProducts[i].category = an.product.category
          /\ an.searched # <<>> => an.alternativeProducts = an.searched
    /\ call.type = "alts" => call.content.alternatives # <<>>

\* the search gave nothing for a valid target and the placeholders went to
\* analyzeAlternatives
C10_Witness ==
    /\ an.pc = "alts" /\ call.type = "alts"
    /\ an.searched = <<>>
    /\ an.product = ProductA
    /\ Len(call.content.alternatives) = 3
    /\ call.content.alternatives[1].priceNumeric = 42

\* C13: a call that ended with a 4xx-class error sent exactly one request, and
\* a call that ended with a RateLimitError sent none.
C13_ClientAndRateLimitErrorsNotRetried ==
    /\ (call.status \in {"returned", "threw"} /\ call.error.m4xx) => call.sent = 1
    /\ call.error.name = "RateLimitError" => call.sent = 0

\* The insight step is about to fail: callGemini threw, or the reply it
\* returned cannot be parsed, or lacks the concerns list
InsightStepFails ==
    /\ an.pc = "insights"
    /\ call.status \in {"returned", "threw"}
    /\ \/ call.status = "threw"
       \/ call.value.body.kind = "broken"
       \/ (call.value.body.kind = "object" /\ ~call.value.body.concerns)

\* C11: when the insight step fails, analyzeProduct still returns: the
\* analysis has insights null, and its shouldBuy and recommendations are the
\* values held before the insight step.
C11_FailedInsightsAreOmitted ==
    [][(InsightStepFails /\ an'.pc = "done")
       => /\ an'.result # NoValue
          /\ an'.result.insights = NoValue
          /\ an'.result.shouldBuy = an.shouldBuy
          /\ an'.result.recommendations = an.aiRecommendations]_vars

\* an analysis returned without insights that kept the Gemini match score and
\* the Gemini ranking
C11_Witness ==
    /\ Returned /\ an.result.insights = NoValue
    /\ ~an.match.threw /\ ~an.alts.threw
    /\ an.result.shouldBuy = an.shouldBuy
    /\ Len(an.result.recommendations) = 2

\* The reply text `text` parses and passes the checks of its call type
Accepted(callType, text) ==
    CASE callType = "match" -> ~analyzeMatchScore([threw |-> FALSE, value |-> text]).threw
      [] callType = "insights" ->
            ~generateInsights([threw |-> FALSE, value |-> text]).threw
      [] OTHER -> ~analyzeAlternatives(<<>>, [threw |-> FALSE, value |-> text]).threw

\* C16: the cache entry of a Gemini call holds a reply that was parsed and
\* validated, so a call answered from the cache gets an accepted reply.
C16_OnlyValidatedRepliesCached ==
    (call.svc = "gemini" /\ call.status = "returned")
    => /\ call.key \in DOMAIN cache => Accepted(call.type, cache[call.key].data)
       /\ call.hit => Accepted(call.type, call.value)

\* C17: in the analysis returned, a match score taken from a Gemini reply and
\* every score of a ranking taken from a Gemini reply lie in [0,1], and
\* insights taken from a Gemini reply have their required fields.
C17_GeminiValuesValidatedBeforeUse ==
    Returned =>
        /\ ~an.match.threw =>
              /\ an.result.shouldBuy.score >= 0
              /\ an.result.shouldBuy.score <= 100
              /\ an.result.shouldBuy.recommendation \in {"buy", "consider", "skip"}
        /\ ~an.alts.threw =>
              \A i \in 1..Len(an.result.recommendations) :
                 /\ an.result.recommendations[i].score.n >= 0
                 /\ an.result.recommendations[i].score.n
                       <= an.result.recommendations[i].score.d
        /\ an.result.insights # NoValue =>
              /\ an.result.insights.summaryLen >= 10
              /\ an.result.insights.strengths /\ an.result.insights.concerns

\* C18: a logical call sends at most 4 requests; retry 1, 2, 3 is preceded by
\* a wait of 1000, 2000, 4000 ms; a call that settles (with the first reply
\* text, with an error that is not retried, or with the 4th failure) does so
\* without a wait.
C18_BoundedAttemptsExponentialWaits ==
    [][/\ call'.sent <= 4
       /\ (call.status = "pending" /\ call'.attempt = call.attempt + 1)
          => /\ call'.status = "pending"
             /\ call'.sent = call.sent + 1
             /\ now' - now = (CASE call'.attempt = 1 -> 1000
                                 [] call'.attempt = 2 -> 2000
                                 [] OTHER -> 4000)
       /\ (call.status = "pending" /\ call'.status # "pending")
          => /\ now' = now
             /\ call'.sent = call.sent]_vars

\* the 4th request of the search failed after waits of 1000, 2000 and 4000 ms
C18_Witness ==
    /\ call.svc = "perplexity" /\ call.status = "returned"
    /\ call.sent = 4 /\ call.attempt = 3
    /\ call.error = Http503
    /\ now = 7000

\* C24: every recommendation produced by findBetterAlternatives has a score
\* in [0,1].
C24_RuleBasedScoresInUnitInterval ==
    \A i \in 1..Len(an.recommendations) :
        /\ an.recommendations[i].score.n >= 0
        /\ an.recommendations[i].score.n <= an.recommendations[i].score.d

(***************************************************************************)
(* SpecCache: analyses one after another against the same cache and rate   *)
(* limiters, the services answering every request at once.                 *)
(***************************************************************************)
\* The replies the services give here: the first match-score texts, and one
\* text for each other call type
CacheReplies(callType) ==
    IF callType \in {"match", "alts", "insights"}
    THEN {r \in Replies(callType) :
             /\ r.wrap # "prose" /\ r.body.kind # "broken"
             /\ (callType = "insights" => r.body.concerns)}
    ELSE {<<"[", "{", "tA", "p", "}", ",", "{", "tB", "~">>}

InitCache ==
    /\ Init
    /\ store = [criteria |-> StoredCriteria, preferences |-> StoredPreferences]

NextCache ==
    \/ \E currentProduct \in {ProductA, ProductB} : StartAnalysis(currentProduct)
    \/ \E text \in CacheReplies(call.type) : RespondText(text)
    \/ SearchDone
    \/ MatchDone
    \/ AltsDone
    \/ InsightsDone
    \/ \E dt \in PipelineClockSteps : Tick(dt)

SpecCache == InitCache /\ [][NextCache]_vars

\* C5: a call answered from the cache returns the value that the call which
\* wrote the entry returned, leaves the rate limiters' request histories as
\* they were when it began, and sends no request.
C5_CacheHitIsFree ==
    call.hit =>
        /\ call.status = "returned"
        /\ call.value = wrote[call.key].returned
        /\ requests = call.reqsBefore
        /\ call.sent = 0

\* a Gemini call answered from the cache at a time when the limiter would
\* reject a request
C5_Witness ==
    /\ call.hit /\ call.svc = "gemini"
    /\ ~RateLimiterCheck(requests, "gemini-api", now).ok

\* C8: a call is answered from the cache only with a reply that was produced
\* for the same request content (product, criteria, patterns, candidates).
C8_CachedReplyIsForSameContent ==
    call.hit => wrote[call.key].content = call.content

(***************************************************************************)
(* SpecCart: one CartInterceptor on a product page.  Every click on the    *)
(* floating icon starts a handleIconClick activation; an activation is     *)
(* suspended at the preference check and at the race between               *)
(* ProductAnalyzer.analyzeProduct and the five-minute timer.  What         *)
(* analyzeProduct returns is drawn from CartAnalyses.  Once the modal is   *)
(* shown, its buttons invoke trackPurchaseDecision.                        *)
(***************************************************************************)

MaxClicks == 3

\* A rejection of the promise that analyzeProduct returned
AnalysisError == [error |-> "analysis"]

\* What analyzeProduct can settle with: a rejection, null, an analysis
\* without shouldBuy, and analyses with a recommendation
CartAnalyses ==
    {AnalysisError, NoValue,
     [shouldBuy |-> NoValue, recommendations |-> <<>>, insights |-> NoValue],
     [shouldBuy |-> [recommendation |-> "buy", score |-> 80],
      recommendations |-> <<>>, insights |-> NoValue],
     [shouldBuy |-> [recommendation |-> "skip", score |-> 20],
      recommendations |-> <<"B1">>, insights |-> NoValue]}

InitCart ==
    /\ RLFresh
    /\ scorer = NoScore
    /\ ParseIdle
    /\ PipeIdle
    /\ SideIdle

\* The activations whose analyzeProduct call has been made and has not settled
AnalysesInFlight == {i \in 1..Len(ci.handlers) : ci.handlers[i].analysis = "running"}

\* A catch block without the finally block: the toast only.
CatchAndFinally_noFinally(c, message) ==
    [c EXCEPT !.toast = IF c.modalOpen THEN @ ELSE message]

\* The catch and finally blocks of showPurchaseAnalysis: the toast is shown
\* unless a modal is open, the loading overlay is removed and the flag is
\* reset
CatchAndFinally(c, message) ==
    [c EXCEPT !.toast = IF c.modalOpen THEN @ ELSE message,
              !.loading = FALSE,
              !.isAnalyzing = FALSE]

\* handleIconClick up to its first await
Click ==
    /\ Len(ci.handlers) < MaxClicks
    /\ IF ci.isAnalyzing
       THEN ci' = ci
       ELSE ci' = [ci EXCEPT !.handlers =
                      Append(@, [pc |-> "prefs", analysis |-> "none",
                                 timer |-> "none"])]
    /\ UNCHANGED <<rlVars, scorer, parseVars, pipeVars, late, tele, unit>>

\* checkPreferences resolves: handleIconClick continues into
\* showPurchaseAnalysis, up to the await of the race
PrefsResolved(i, hasPreferences, detected) ==
    /\ i \in 1..Len(ci.handlers)
    /\ ci.handlers[i].pc = "prefs"
    /\ IF ~hasPreferences \/ ci.isAnalyzing
       THEN ci' = [ci EXCEPT !.handlers[i].pc = "done"]
       ELSE IF ~detected
       THEN ci' = [CatchAndFinally(ci, "nodetect") EXCEPT !.handlers[i].pc = "done"]
       ELSE ci' = [ci EXCEPT !.isAnalyzing = TRUE, !.loading = TRUE,
                             !.handlers[i] = [pc |-> "race", analysis |-> "running",
                                              timer |-> "armed"]]
    /\ UNCHANGED <<rlVars, scorer, parseVars, pipeVars, late, tele, unit>>

\* The continuation of showPurchaseAnalysis after the race was won by the
\* analysis
AfterRace(c, analysis) ==
    IF analysis = AnalysisError
    THEN CatchAndFinally(c, "analysis")
    ELSE IF analysis = NoValue \/ analysis.shouldBuy = NoValue
    THEN CatchAndFinally(c, "invalid")
    ELSE [c EXCEPT !.shown = analysis, !.modalOpen = TRUE,
                   !.loading = FALSE, !.isAnalyzing = FALSE]

\* analyzeProduct of activation i resolves
AnalysisSettles(i, analysis) ==
    /\ i \in 1..Len(ci.handlers)
    /\ ci.handlers[i].analysis = "running"
    /\ IF ci.handlers[i].pc = "race"
       THEN ci' = [AfterRace(ci, analysis) EXCEPT
                      !.handlers[i].pc = "done",
                      !.handlers[i].analysis = "finished"]
       ELSE ci' = [ci EXCEPT !.handlers[i].analysis = "finished"]
    /\ UNCHANGED <<rlVars, scorer, parseVars, pipeVars, late, tele, unit>>

\* The five-minute timer of activation i fires; timers fire in the order in
\* which they were armed
TimerExpires(i) ==
    /\ i \in 1..Len(ci.handlers)
    /\ ci.handlers[i].timer = "armed"
    /\ \A j \in 1..(i - 1) : ci.handlers[j].timer # "armed"
    /\ IF ci.handlers[i].pc = "race"
       THEN ci' = [CatchAndFinally(ci, "timeout") EXCEPT
                      !.handlers[i].pc = "done",
                      !.handlers[i].timer = "fired"]
       ELSE ci' = [ci EXCEPT !.handlers[i].timer = "fired"]
    /\ UNCHANGED <<rlVars, scorer, parseVars, pipeVars, late, tele, unit>>

\* The catch block of SupabaseSync.trackPurchaseAttempt: the failure is
\* logged and the method returns
trackPurchaseAttemptCatch_rethrow(failure) == [threw |-> TRUE, logged |-> failure]
trackPurchaseAttemptCatch(failure) == [threw |-> FALSE, logged |-> failure]

\* The catch block of CartInterceptor.trackPurchaseDecision
trackPurchaseDecisionCatch(failure) == [threw |-> FALSE, logged |-> failure]

\* trackPurchaseAttempt fails inside its try block and trackPurchaseDecision
\* awaits it
AttemptFails(t, failure) ==
    LET attempt == trackPurchaseAttemptCatch(failure)
        decision == IF attempt.threw THEN trackPurchaseDecisionCatch(failure)
                    ELSE [threw |-> FALSE, logged |-> attempt.logged]
    IN  [t EXCEPT !.pc = "done", !.attemptThrew = attempt.threw,
                  !.decisionThrew = decision.threw, !.logged = decision.logged]

\* A button of the open modal is used: the proceed and the close button
\* remove the modal, an alternative's link leaves it open; the callback calls
\* trackPurchaseDecision, which runs up to its dynamic import
Decide(userDecision) ==
    /\ ci.modalOpen
    /\ tele.pc \in {"none", "done"}
    /\ ci' = [ci EXCEPT !.modalOpen = (userDecision = "viewed_alternative")]
    /\ tele' = [tele EXCEPT !.pc = "import", !.decision = userDecision,
                            !.recommendation = ci.shown.shouldBuy.recommendation,
                            !.score = ci.shown.shouldBuy.score,
                            !.attemptThrew = FALSE, !.decisionThrew = FALSE,
                            !.inserted = FALSE, !.logged = "none"]
    /\ UNCHANGED <<rlVars, scorer, parseVars, pipeVars, late, unit>>

\* The import of the sync module settles; when it succeeded,
\* trackPurchaseAttempt runs up to the first await of initializeUser or, with
\* a user id already held, up to the insert
ImportSettles(loaded) ==
    /\ tele.pc = "import"
    /\ tele' = IF ~loaded
               THEN [tele EXCEPT !.pc = "done",
                        !.decisionThrew = trackPurchaseDecisionCatch("import").threw,
                        !.logged = trackPurchaseDecisionCatch("import").logged]
               ELSE [tele EXCEPT !.pc = IF tele.userId THEN "insert" ELSE "init"]
    /\ UNCHANGED <<rlVars, scorer, parseVars, pipeVars, late, ci, unit>>

\* initializeUser settles: the storage read fails, or the id is held and
\* ensureUserExists fails on the upsert's error, or the user exists
InitSettles(outcome) ==
    /\ tele.pc = "init"
    /\ tele' = CASE outcome = "storage" -> AttemptFails(tele, "storage")
                 [] outcome = "upsert" ->
                        AttemptFails([tele EXCEPT !.userId = TRUE], "upsert")
                 [] OTHER -> [tele EXCEPT !.userId = TRUE, !.upserted = TRUE,
                                          !.pc = "insert"]
    /\ UNCHANGED <<rlVars, scorer, parseVars, pipeVars, late, ci, unit>>

\* The insert into purchase_attempts settles, with or without an error
InsertSettles(error) ==
    /\ tele.pc = "insert"
    /\ tele' = IF error THEN AttemptFails(tele, "insert")
               ELSE [tele EXCEPT !.pc = "done", !.inserted = TRUE]
    /\ UNCHANGED <<rlVars, scorer, parseVars, pipeVars, late, ci, unit>>

NextCart ==
    \/ Click
    \/ \E i \in 1..MaxClicks, hasPreferences \in BOOLEAN, detected \in BOOLEAN :
          PrefsResolved(i, hasPreferences, detected)
    \/ \E i \in 1..MaxClicks, analysis \in CartAnalyses : AnalysisSettles(i, analysis)
    \/ \E i \in 1..MaxClicks : TimerExpires(i)
    \/ \E userDecision \in {"proceeded", "cancelled", "viewed_alternative"} :
          Decide(userDecision)
    \/ \E loaded \in BOOLEAN : ImportSettles(loaded)
    \/ \E outcome \in {"ok", "storage", "upsert"} : InitSettles(outcome)
    \/ \E error \in BOOLEAN : InsertSettles(error)

SpecCart == InitCart /\ [][NextCart]_vars

\* A timer armed with setTimeout fires: the page's event loop runs every
\* timer that is due
SpecCartFair == SpecCart /\ WF_vars(\E i \in 1..MaxClicks : TimerExpires(i))

\* C20: per CartInterceptor at most one analyzeProduct execution is in
\* flight at any time, whatever the interleaving of clicks, preference
\* checks and timer expiries.
C20_AtMostOneAnalysisInFlight == Cardinality(AnalysesInFlight) <= 1

\* C15: SupabaseSync.trackPurchaseAttempt and
\* CartInterceptor.trackPurchaseDecision complete without throwing when user
\* initialisation, the remote insert or the loading of the sync module
\* fails, and no step of them changes the analysis that was handed to the
\* modal.
C15_TelemetryFailureIsSwallowed ==
    [][(tele' # tele) =>
          /\ ci'.shown = ci.shown
          /\ tele'.pc = "done" => (~tele'.attemptThrew /\ ~tele'.decisionThrew)]_vars

\* trackPurchaseDecision has completed after the insert reported an error,
\* for an analysis that was shown
C15_Witness ==
    /\ tele.pc = "done" /\ tele.logged = "insert" /\ ~tele.inserted

\* C29: every outcome of a showPurchaseAnalysis that set the flag (result
\* shown, no product detected, analysis rejected, null or without shouldBuy,
\* timer fired) leaves isAnalyzing FALSE and the loading overlay removed,
\* and the flag never stays set: whenever it is set it is reset later.
C29_AnalysisFlagIsAlwaysReleased ==
    /\ [][\A i \in 1..Len(ci.handlers) :
             /\ (ci.handlers[i].pc = "race" /\ ci'.handlers[i].pc = "done") =>
                    (~ci'.isAnalyzing /\ ~ci'.loading)
             /\ (ci.handlers[i].pc = "prefs" /\ ci'.handlers[i].pc = "done"
                 /\ ~ci.isAnalyzing) =>
                    (~ci'.isAnalyzing /\ ~ci'.loading)]_vars
    /\ (ci.isAnalyzing \/ ci.loading) ~> (~ci.isAnalyzing /\ ~ci.loading)

\* the first analysis never settled and was ended by its timer; a later
\* click has started a second analysis
C29_Witness ==
    /\ Len(ci.handlers) >= 2
    /\ ci.handlers[1].pc = "done" /\ ci.handlers[1].timer = "fired"
    /\ ci.handlers[1].analysis = "running"
    /\ ci.handlers[2].pc = "race" /\ ci.isAnalyzing /\ ci.loading

MaxLate == 2

\* Timers fire before the response at most MaxTimeouts times in a run
MaxTimeouts == 4

GeminiTimeoutMs == 300000
PerplexityTimeoutMs == 30000

TimeoutMs(svc) == IF svc = "gemini" THEN GeminiTimeoutMs ELSE PerplexityTimeoutMs

\* new Error('Gemini API timeout after 5 minutes'),
\* new Error('Perplexity API timeout after 30 seconds')
TimeoutError == [NoError EXCEPT !.name = "Error", !.timeout = TRUE]

\* What the code awaiting Promise.race([fetchPromise, timeoutPromise]) is
\* resumed with when `event` settles: a promise settles once, so a
\* settlement after the race is decided resumes nothing
PromiseRace_everySettlement(decided, event) == event
PromiseRace(decided, event) == IF decided THEN "none" ELSE event

\* The response of the attempt in flight arrives before its timer fires
FetchSettles(text) ==
    /\ call.status = "pending"
    /\ PromiseRace(FALSE, "response") = "response"
    /\ IF call.svc = "gemini"
       THEN Deliver(text, TRUE)
       ELSE DeliverList(SearchProducts(text, an.product))
    /\ late' = [late EXCEPT !.timers = IF @ < MaxLate THEN @ + 1 ELSE @]
    /\ UNCHANGED <<now, ticks, requests, granted, rlLast, scorer, parseVars,
                   store, an, ci, tele, unit>>

\* The timer of the attempt in flight fires before the response arrives:
\* the attempt rejects with the timeout error, which withRetry handles
TimerFires ==
    /\ call.status = "pending"
    /\ ticks < MaxTimeouts
    /\ ticks' = ticks + 1
    /\ PromiseRace(FALSE, "timer") = "timer"
    /\ LET step == RetryStep(call.attempt, [kind |-> "error", error |-> TimeoutError])
       IN  IF step.next = "retry"
           THEN /\ now' = now + TimeoutMs(call.svc) + step.delay
                /\ call' = [call EXCEPT !.attempt = @ + 1, !.sent = @ + 1]
           ELSE /\ now' = now + TimeoutMs(call.svc)
                /\ call' = [call EXCEPT
                               !.status = IF call.svc = "gemini" THEN "threw"
                                          ELSE "returned",
                               !.error = TimeoutError]
    /\ late' = [late EXCEPT !.responses =
                    @ \cup {[svc |-> call.svc, type |-> call.type,
                             key |-> call.key, content |-> call.content]}]
    /\ UNCHANGED <<requests, granted, rlLast, scorer, parseVars, store,
                   cache, wrote, an, ci, tele, unit>>

\* The response of an attempt that timed out arrives
LateResponse(r, text) ==
    /\ r \in late.responses
    /\ late' = [late EXCEPT !.responses = @ \ {r}, !.ignored = "response"]
    /\ IF PromiseRace(TRUE, "response") = "none"
       THEN UNCHANGED <<cache, wrote>>
       ELSE /\ cache' = CacheSet(cache, r.key, text,
                                 IF r.svc = "gemini" THEN GeminiTTL ELSE PerplexityTTL,
                                 now)
            /\ wrote' = [k \in (DOMAIN wrote) \cup {r.key} |->
                            IF k = r.key
                            THEN [content |-> r.content, returned |-> text]
                            ELSE wrote[k]]
    /\ UNCHANGED <<rlVars, scorer, parseVars, store, an, call, ci, tele, unit>>

\* The timer of an attempt that was answered fires
LateTimer ==
    /\ late.timers > 0
    /\ late' = [late EXCEPT !.timers = @ - 1, !.ignored = "timer"]
    /\ IF PromiseRace(TRUE, "timer") = "none"
       THEN UNCHANGED call
       ELSE call' = [call EXCEPT !.error = TimeoutError]
    /\ UNCHANGED <<rlVars, scorer, parseVars, store, cache, wrote, an, ci, tele, unit>>

NextTimeout ==
    \/ an.pc = "idle" /\ StartAnalysis(ProductA)
    \/ \E text \in CacheReplies(call.type) : FetchSettles(text)
    \/ TimerFires
    \/ \E r \in late.responses : \E text \in CacheReplies(r.type) : LateResponse(r, text)
    \/ LateTimer
    \/ SearchDone
    \/ MatchDone
    \/ AltsDone
    \/ InsightsDone

SpecTimeout == InitCache /\ [][NextTimeout]_vars

\* C19: when the timer of an attempt fires before its response arrives, the
\* attempt fails with the timeout error (it is retried, or the call ends
\* with that error and without a value); a response that arrives after its
\* timer fired is returned to no caller and written to no cache entry; a
\* timer that fires after its response arrived changes nothing.
C19_FirstSettlementWinsTheRace ==
    [][/\ (ticks' = ticks + 1) =>
             /\ UNCHANGED <<cache, wrote, an>>
             /\ \/ call' = [call EXCEPT !.attempt = @ + 1, !.sent = @ + 1]
                \/ /\ call'.error = TimeoutError
                   /\ call'.status \in {"threw", "returned"}
                   /\ call'.value = call.value
                   /\ call.attempt = MaxRetries
       /\ (\/ late'.ignored # late.ignored
           \/ late'.timers < late.timers
           \/ (late'.responses # late.responses
               /\ late'.responses \subseteq late.responses)) =>
             UNCHANGED <<cache, wrote, an, call, now>>
      ]_vars

\* the first attempt of a Gemini call timed out, the retry was answered and
\* returned, and the first attempt's response has since arrived
C19_Witness ==
    /\ late.ignored = "response"
    /\ call.svc = "gemini" /\ call.status = "returned" /\ call.sent = 2
    /\ late.responses = {}
    /\ call.key \in DOMAIN cache
    /\ cache[call.key].data = call.value

(***************************************************************************)
(* SpecTTL: the Cache alone, driven by set, get and clock advances.        *)
(* unit.sets remembers, per key, the arguments and the time of the last    *)
(* set.                                                                    *)
(***************************************************************************)
CacheKeys == {"k1", "k2"}
Payloads == {"a", "b"}
TTLs == {1, 59999, 60000}

InitTTL ==
    /\ RLFresh
    /\ scorer = NoScore
    /\ ParseIdle
    /\ PipeIdle
    /\ late = NoLate /\ ci = CartIdle /\ tele = NoTelemetry
    /\ unit = [op |-> "none", sets |-> <<>>]

\* cache.set(key, payload, ttl)
CacheSetOp(key, payload, ttl) ==
    /\ cache' = CacheSet(cache, key, payload, ttl, now)
    /\ unit' = [op |-> "set", key |-> key,
                sets |-> [k \in (DOMAIN unit.sets) \cup {key} |->
                             IF k = key THEN [payload |-> payload, t |-> now, ttl |-> ttl]
                             ELSE unit.sets[k]]]
    /\ UNCHANGED <<rlVars, scorer, parseVars, store, wrote, an, call, late, ci, tele>>

\* cache.get(key)
CacheGetOp(key) ==
    /\ LET got == CacheGet(cache, key, now)
       IN  /\ cache' = got.storage
           /\ unit' = [op |-> "get", key |-> key, at |-> now, hit |-> got.hit,
                       data |-> got.data, sets |-> unit.sets]
    /\ UNCHANGED <<rlVars, scorer, parseVars, store, wrote, an, call, late, ci, tele>>

NextTTL ==
    \/ \E key \in CacheKeys, payload \in Payloads, ttl \in TTLs :
          CacheSetOp(key, payload, ttl)
    \/ \E key \in CacheKeys : CacheGetOp(key)
    \/ \E dt \in ClockSteps : RLAdvance(dt)

SpecTTL == InitTTL /\ [][NextTTL]_vars

\* C26: after set(key, payload, ttl) at time t, a get(key) at time t'
\* returns the payload iff t' < t + ttl, and at every t' >= t + ttl it
\* returns absent and the entry is gone from the store.
C26_PayloadUntilExpiry ==
    (unit.op = "get" /\ unit.key \in DOMAIN unit.sets) =>
        LET last == unit.sets[unit.key]
        IN  IF unit.at < last.t + last.ttl
            THEN unit.hit /\ unit.data = last.payload
            ELSE ~unit.hit /\ unit.key \notin DOMAIN cache

(***************************************************************************)
(* SpecSwipe: analyzeSwipePatterns on preferences built one swipe at a     *)
(* time.                                                                   *)
(***************************************************************************)
MaxSwipes == 5
SwipeCategories == {"Audio", "Books", "Garden", "Toys"}

InitSwipe ==
    /\ RLFresh
    /\ scorer = NoScore
    /\ ParseIdle
    /\ PipeIdle
    /\ late = NoLate /\ ci = CartIdle /\ tele = NoTelemetry
    /\ unit = [op |-> "swipes", analysed |-> FALSE,
               preferences |-> [likedProducts |-> <<>>, dislikedProducts |-> <<>>]]

\* One more product is swiped right (liked) or left (disliked)
Swipe(liked, category, rating) ==
    /\ ~unit.analysed
    /\ Len(unit.preferences.likedProducts)
          + Len(unit.preferences.dislikedProducts) < MaxSwipes
    /\ LET p == [priceNumeric |-> IF liked THEN 40 ELSE 90,
                 category |-> category, rating |-> rating]
       IN  unit' = IF liked
                   THEN [unit EXCEPT !.preferences.likedProducts = Append(@, p)]
                   ELSE [unit EXCEPT !.preferences.dislikedProducts = Append(@, p)]
    /\ UNCHANGED <<rlVars, scorer, parseVars, pipeVars, late, ci, tele>>

\* RecommendationEngine.analyzeSwipePatterns(preferences)
Analyse ==
    /\ ~unit.analysed
    /\ unit' = [analysed |-> TRUE] @@ [unit EXCEPT !.op = "analysed"]
               @@ [patterns |-> analyzeSwipePatterns(unit.preferences)]
    /\ UNCHANGED <<rlVars, scorer, parseVars, pipeVars, late, ci, tele>>

NextSwipe ==
    \/ \E category \in SwipeCategories, rating \in {NoRating, 40} :
          Swipe(TRUE, category, rating)
    \/ \E category \in SwipeCategories : Swipe(FALSE, category, NoRating)
    \/ Analyse

SpecSwipe == InitSwipe /\ [][NextSwipe]_vars

\* `top` lists the up-to-3 most frequent categories of `products`, most
\* frequent first, equal counts in order of first occurrence
IsTopThree(top, products) ==
    LET occ(c) == {i \in 1..Len(products) : products[i].category = c}
        first(c) == CHOOSE i \in occ(c) : \A j \in occ(c) : i <= j
        before(c, d) == \/ Cardinality(occ(c)) > Cardinality(occ(d))
                        \/ /\ Cardinality(occ(c)) = Cardinality(occ(d))
                           /\ first(c) < first(d)
        present == {c \in SwipeCategories : occ(c) # {}}
    IN  /\ Len(top) = (IF Cardinality(present) < 3 THEN Cardinality(present) ELSE 3)
        /\ \A i \in 1..Len(top) : top[i] \in present
        /\ \A i, j \in 1..Len(top) : i < j => before(top[i], top[j])
        /\ \A c \in present :
              (\A i \in 1..Len(top) : top[i] # c) =>
                  \A i \in 1..Len(top) : before(top[i], c)

MaxCandidates == 3

InitAlts ==
    /\ RLFresh
    /\ scorer = NoScore
    /\ ParseIdle
    /\ PipeIdle
    /\ late = NoLate /\ ci = CartIdle /\ tele = NoTelemetry
    /\ \E priceNumeric \in {0, 60} :
          unit = [op |-> "candidates",
                  targetProduct |-> [ProductA EXCEPT !.priceNumeric = priceNumeric],
                  allProducts |-> <<>>,
                  recommendations |-> <<>>]

\* One more product joins the candidate list
AddCandidate(id, priceNumeric, category, rating) ==
    /\ unit.op = "candidates"
    /\ Len(unit.allProducts) < MaxCandidates
    /\ unit' = [unit EXCEPT !.allProducts =
                   Append(@, [id |-> id, title |-> TitleMug,
                              priceNumeric |-> priceNumeric,
                              category |-> category, rating |-> rating])]
    /\ UNCHANGED <<rlVars, scorer, parseVars, pipeVars, late, ci, tele>>

\* RecommendationEngine.findBetterAlternatives(targetProduct, allProducts, criteria)
Recommend ==
    /\ unit.op = "candidates"
    /\ unit' = [unit EXCEPT !.op = "recommended",
                            !.recommendations =
                                findBetterAlternatives(unit.targetProduct,
                                                       unit.allProducts, StoredCriteria)]
    /\ UNCHANGED <<rlVars, scorer, parseVars, pipeVars, late, ci, tele>>

NextAlts ==
    \/ \E id \in {"p1", "c1"}, priceNumeric \in {0, 40, 60},
          category \in Categories, rating \in {NoRating, 45} :
          AddCandidate(id, priceNumeric, category, rating)
    \/ Recommend

SpecAlts == InitAlts /\ [][NextAlts]_vars

\* C25: findBetterAlternatives returns at most 5 recommendations in
\* non-increasing score order, each for a candidate whose similarity to the
\* target is at least 0.3 and whose score is above 0.5; and a candidate other
\* than the target that meets both conditions is left out only when 5
\* returned candidates have scores at least as high.
C25_TopFiveSimilarAboveHalf ==
    unit.op = "recommended" =>
        LET r == unit.recommendations
            t == unit.targetProduct
            similar(p) == t.priceNumeric + p.priceNumeric > 0 /\ SimilarEnough(t, p)
            score(p) == calculateRecommendationScore(p, t, StoredCriteria)
        IN  /\ Len(r) <= 5
            /\ \A i, j \in 1..Len(r) : i < j => ~FracGt(r[j].score, r[i].score)
            /\ \A i \in 1..Len(r) :
                  /\ similar(r[i].product)
                  /\ FracGt(r[i].score, [n |-> 1, d |-> 2])
            /\ \A k \in 1..Len(unit.allProducts) :
                  LET p == unit.allProducts[k]
                  IN  (p.id # t.id /\ similar(p) /\ FracGt(score(p), [n |-> 1, d |-> 2]))
                      => \/ \E i \in 1..Len(r) : r[i].product = p
                         \/ /\ Len(r) = 5
                            /\ \A i \in 1..5 : ~FracGt(score(p), r[i].score)

(***************************************************************************)
(* SpecBurst: callGemini called again and again while the service answers  *)
(* every request with an HTTP error.  unit.sent lists the times at which   *)
(* a request was sent to the service.                                      *)
(***************************************************************************)
InitBurst ==
    /\ RLFresh
    /\ scorer = NoScore
    /\ ParseIdle
    /\ PipeIdle
    /\ late = NoLate /\ ci = CartIdle /\ tele = NoTelemetry
    /\ unit = [op |-> "burst", sent |-> <<>>]

\* callGemini up to its first request: cache lookup, limiter check, and the
\* first attempt of withRetry
BurstCall ==
    /\ call.status # "pending"
    /\ GeminiCall("match", [product |-> ProductA, criteria |-> StoredCriteria,
                            patterns |-> analyzeSwipePatterns(StoredPreferences)])
    /\ unit' = [unit EXCEPT !.sent = IF call'.status = "pending"
                                     THEN Append(@, now) ELSE @]
    /\ UNCHANGED <<now, ticks, granted, rlLast, scorer, parseVars, store, wrote,
                   an, late, ci, tele>>

\* The request in flight is answered with an error: withRetry waits and sends
\* the request again, or rethrows
BurstError(error) ==
    /\ call.status = "pending"
    /\ LET step == RetryStep(call.attempt, [kind |-> "error", error |-> error])
       IN  IF step.next = "retry"
           THEN /\ ticks < MaxTicks
                /\ ticks' = ticks + 1
                /\ now' = now + step.delay
                /\ call' = [call EXCEPT !.attempt = @ + 1, !.sent = @ + 1]
                /\ unit' = [unit EXCEPT !.sent = Append(@, now + step.delay)]
           ELSE /\ call' = [call EXCEPT !.status = "threw", !.error = error]
                /\ UNCHANGED <<now, ticks, unit>>
    /\ UNCHANGED <<requests, granted, rlLast, scorer, parseVars, store, cache,
                   wrote, an, late, ci, tele>>

NextBurst ==
    \/ BurstCall
    \/ \E error \in {Http503, Http400} : BurstError(error)

SpecBurst == InitBurst /\ [][NextBurst]_vars

\* C22: no more than 10 requests are sent to the Gemini API within any
\* rolling 60-second window, retry attempts included.  Every window ends no
\* later than some request it contains, so the window ending now bounds all.
C22_AtMostTenRequestsSentPerWindow ==
    Cardinality({i \in 1..Len(unit.sent) : unit.sent[i] > now - GeminiWindowMs})
        <= GeminiMaxRequests

(***************************************************************************)
(* SpecDup: two callGemini activations for the same prompt, started in any *)
(* order and at any distance, after `used` earlier requests of the minute. *)
(* unit.a[i] is activation i; unit.last is the one that completed last.    *)
(***************************************************************************)
DupKey ==
    GeminiCacheKey(Prompt("match", [product |-> ProductA, criteria |-> StoredCriteria,
                                    patterns |-> analyzeSwipePatterns(StoredPreferences)]))

DupIdle == [pc |-> "idle", overlapped |-> FALSE, hit |-> FALSE, stamped |-> FALSE,
            sent |-> 0, value |-> NoValue]

InitDup ==
    /\ now = 0 /\ ticks = 0 /\ rlLast = NoCheck
    /\ granted = [k \in ServiceKeys |-> <<>>]
    /\ \E used \in {0, GeminiMaxRequests - 2, GeminiMaxRequests - 1} :
          requests = [k \in ServiceKeys |->
                         IF k = "gemini-api" THEN [j \in 1..used |-> 0] ELSE <<>>]
    /\ scorer = NoScore
    /\ ParseIdle
    /\ PipeIdle
    /\ late = NoLate /\ ci = CartIdle /\ tele = NoTelemetry
    /\ unit = [op |-> "dup", a |-> [i \in 1..2 |-> DupIdle], last |-> 0]

\* callGemini of activation i up to its first request: cache lookup and
\* limiter check
DupStart(i) ==
    /\ unit.a[i].pc = "idle"
    /\ LET entry == CallGeminiEntry(cache, requests, DupKey, now)
           o == 3 - i
           overlap == unit.a[o].pc = "pending" /\ DupKey \notin DOMAIN cache
       IN  /\ cache' = entry.storage
           /\ requests' = entry.requests
           /\ unit' = [unit EXCEPT
                          !.a[i] = [pc |-> entry.status, overlapped |-> overlap,
                                    hit |-> entry.hit,
                                    stamped |-> entry.requests # requests,
                                    sent |-> IF entry.status = "pending" THEN 1 ELSE 0,
                                    value |-> entry.value],
                          !.a[o].overlapped = @ \/ overlap]
    /\ UNCHANGED <<now, ticks, granted, rlLast, scorer, parseVars, store, wrote,
                   an, call, late, ci, tele>>

\* The request of activation i is answered with a text: it is cached and
\* returned
DupReply(i, text) ==
    /\ unit.a[i].pc = "pending"
    /\ cache' = CacheSet(cache, DupKey, text, GeminiTTL, now)
    /\ unit' = [unit EXCEPT !.a[i].pc = "returned", !.a[i].value = text,
                            !.last = i]
    /\ UNCHANGED <<rlVars, scorer, parseVars, store, wrote, an, call, late, ci, tele>>

\* The request of activation i is answered with HTTP 400: callGemini throws
DupError(i) ==
    /\ unit.a[i].pc = "pending"
    /\ unit' = [unit EXCEPT !.a[i].pc = "threw"]
    /\ UNCHANGED <<rlVars, scorer, parseVars, pipeVars, late, ci, tele>>

NextDup ==
    \/ \E i \in 1..2 : DupStart(i)
    \/ \E i \in 1..2, text \in CacheReplies("match") : DupReply(i, text)
    \/ \E i \in 1..2 : DupError(i)
    \/ \E dt \in ClockSteps : RLAdvance(dt)

SpecDup == InitDup /\ [][NextDup]_vars

\* C21: of two identical callGemini requests that overlap while the cache
\* holds no entry for their key, both miss the cache, each records its own
\* timestamp in the rate window and issues its own request, and each has
\* written the cache when it has completed.
C21_OverlappingCallsBothSendAndStore ==
    \A i \in 1..2 :
        unit.a[i].overlapped =>
            /\ ~unit.a[i].hit
            /\ unit.a[i].stamped /\ unit.a[i].sent = 1
            /\ unit.a[i].pc \in {"pending", "returned"}
            /\ (unit.a[i].pc = "returned" /\ unit.last = i) =>
                  (DupKey \in DOMAIN cache /\ cache[DupKey].data = unit.a[i].value)

\* C21, for the calls the rate limiter admits and the requests that are
\* answered: overlapping calls both miss the cache; a call started with
\* fewer than 10 requests in the window records its timestamp and sends its
\* own request, a call started with 10 is rejected without either; and a
\* call whose request is answered stores the answer, replacing what the
\* other call stored.
C21_NoDeduplicationOfOverlappingCalls ==
    [][\A i \in 1..2 :
          LET inWindow == Cardinality({k \in 1..Len(requests["gemini-api"]) :
                              requests["gemini-api"][k] > now - GeminiWindowMs})
          IN  /\ (unit.a[i].pc = "idle" /\ unit'.a[i].pc # "idle"
                  /\ unit'.a[i].overlapped) =>
                     /\ ~unit'.a[i].hit
                     /\ IF inWindow < GeminiMaxRequests
                        THEN /\ unit'.a[i].pc = "pending" /\ unit'.a[i].sent = 1
                             /\ Len(requests'["gemini-api"]) = inWindow + 1
                             /\ requests'["gemini-api"][inWindow + 1] = now
                        ELSE /\ unit'.a[i].pc = "threw" /\ unit'.a[i].sent = 0
                             /\ requests' = requests
              /\ (unit.a[i].pc = "pending" /\ unit'.a[i].pc = "returned") =>
                     /\ DupKey \in DOMAIN cache'
                     /\ cache'[DupKey].data = unit'.a[i].value
                     /\ cache'[DupKey].timestamp = now
              /\ (unit.a[i].pc = "pending" /\ unit'.a[i].pc = "threw") =>
                     cache' = cache]_vars

\* both overlapping calls were answered, with different texts; the cache
\* holds the text of the one answered last
C21_Witness ==
    /\ unit.op = "dup"
    /\ \A i \in 1..2 : unit.a[i].overlapped /\ unit.a[i].pc = "returned"
    /\ unit.a[1].value # unit.a[2].value
    /\ unit.last = 1
    /\ cache[DupKey].data = unit.a[1].value
    /\ Len(requests["gemini-api"]) = 2
====
